---- MODULE Spec2Model ----
(***************************************************************************)
(* Neural link / hive integration: the safety monitor of the architecture  *)
(* prototype (architecture_prototype.py) and the session orchestrator with *)
(* its transport (neural_link_system.py, hive_protocol.py).                *)
(*                                                                         *)
(* asyncio runs one task at a time and switches tasks only where a task    *)
(* really suspends.  An action below is therefore the code a task runs     *)
(* between two suspension points.  "await queue.put(m)" on the unbounded   *)
(* asyncio.Queue and awaits of coroutines that never suspend are not       *)
(* suspension points.                                                      *)
(***************************************************************************)
EXTENDS Integers, Sequences, FiniteSets, TLC

VARIABLES
    \* ---- architecture_prototype.py ----
    status,            \* UserSafetyMonitor.status
    alert_callbacks,   \* UserSafetyMonitor.alert_callbacks, in registration order
    monitor_pc,        \* "idle", or "emergency_stop" between lines 366 and 367
    is_running,        \* prototype NeuralLinkSystem.is_running
    proto_connected,   \* HiveCommunicationInterface.is_connected
    shutdown_tasks,    \* shutdown() tasks scheduled by asyncio.create_task, not yet run
    last_call,         \* the most recent call of the prototype and what it returned
    stop_called,       \* emergency_stop() has returned at least once
    \* ---- neural_link_system.py, hive_protocol.py, neural_security.py ----
    security_initialized, \* NeuralSecurityLayer: master key, session key and signature set
    is_active,         \* NeuralLinkSystem.is_active
    emergency_stop,    \* NeuralLinkSystem.emergency_stop
    session_start_time,\* TRUE once session_start_time is set
    stress_level,      \* cognitive_state['stress_level'], in hundredths
    error_count,       \* metrics['error_count']
    safety_violations, \* the types of NeuralLinkSystem.safety_violations, in order
    is_connected,      \* HiveProtocol.is_connected
    connections,       \* the keys of HiveProtocol.connections
    writer_closed,     \* close() has been called on the hive_master writer
    outgoing_queue,    \* HiveProtocol.outgoing_queue
    wire,              \* the messages the send loop wrote to the open connection
    pc,                \* where each task stands (api: the caller of the public methods)
    init_call,         \* the last initialize() call: its circumstances and result
    es_connected,      \* emergency_shutdown was entered with the connection open
    end_calls,         \* end_session and emergency_shutdown calls made by the caller
    last_step,         \* what the last step did: call returned, message dispatched, data queued
    \* ---- neural_security.py: NeuralSecurityLayer ----
    master_key,        \* 0 for None, else the number of the master key generated
    session_keys,      \* key_id -> session key (the number of the key generated)
    current_key_id,    \* 0 while the attribute does not exist
    keys_made,         \* session keys generated so far, one per rotation
    held,              \* a package encrypt_neural_data returned, kept by the caller
    sec_last,          \* the last security-layer call and what it returned
    \* ---- performance_optimizer.py: PriorityQueue ----
    max_size,          \* the constructor's argument, 0 before construction
    queues,            \* lane -> the packets of its deque, oldest first
    packet_count,      \* PriorityQueue.packet_count
    enqueued,          \* enqueue calls made so far
    pending,           \* packets enqueued into a lane and not yet returned by dequeue
    overflowed,        \* some enqueue found its lane full
    pq_last,           \* the last PriorityQueue call and its packet
    \* ---- hive_protocol.py: the frames between a send loop and a receive loop ----
    reader,            \* the bytes written to the stream and not yet read
    reader_eof,        \* the remote end has closed the stream
    receiving,         \* the receive loop has not left its while loop
    rx_connected,      \* is_connected of the receiving HiveProtocol
    message_queue,     \* the receiving HiveProtocol's message_queue
    messages_received, \* its metrics['messages_received']
    handled,           \* the messages passed to _handle_message, in order
    frames_made,       \* messages the sending loop has taken from its queue
    in_flight,         \* for each frame in reader: the message it was made from
    rx_last,           \* what the last iteration of the receive loop did
    \* ---- hive_protocol.py: consensus ----
    consensus_requests,\* HiveProtocol.consensus_requests: request_id -> votes, start_time, timeout
    consensus_pc,      \* the caller of request_consensus: "idle", "sleep" (line 351) or "returned"
    consensus_clock,   \* time.time(), in polling intervals
    requests_made,     \* request_consensus calls made; the last one's id
    consensus_last,    \* the last consensus step: poll, return or vote
    \* ---- neural_link_system.py: feedback ----
    feedback_config,   \* NeuralLinkSystem.config: enable_feedback, feedback_intensity_limit
    feedback_active,   \* is_active, as the feedback loop reads it
    feedback_pc,       \* _feedback_processing_loop: "none", "loop" or "done"
    feedback_handlers, \* the number of handlers in feedback_handlers
    feedback_queue,    \* NeuralLinkSystem.feedback_queue
    commands_received, \* metrics['commands_received']
    feedback_calls,    \* _process_feedback calls made so far
    feedback_taken,    \* the items the loop took from the queue, with the handlers registered then
    feedback_delivered,\* the calls handler(feedback) made, in order
    feedback_last,     \* the last _process_feedback call: payload and item queued
    \* ---- the processing loops of the prototype and of the session orchestrator ----
    signals_seen,      \* signals process_loop has taken
    commands_put,      \* puts on HiveCommunicationInterface.message_queue so far
    hive_message_queue,\* HiveCommunicationInterface.message_queue
    neural_pc,         \* _neural_processing_loop: "none", "loop" or "done"
    neural_active,     \* is_active and not emergency_stop, as that loop reads them
    chunks_seen,       \* chunks _neural_processing_loop has taken
    neural_outgoing,   \* the messages send_neural_data queued
    patterns_recognized, \* metrics['patterns_recognized']
    commands_sent,     \* metrics['commands_sent']
    neural_errors,     \* metrics['error_count'], as line 226 counts
    proc_last,         \* the last round of either loop: input, verdict, message put
    \* ---- hive_protocol.py: heartbeats ----
    heartbeat_pc,      \* _heartbeat_loop: "sleep" (line 217) or "done"
    heartbeats_put,    \* HEARTBEAT messages the loop has queued
    heartbeats_handled,\* HEARTBEAT messages of the peer passed to _handle_message
    intervals_elapsed, \* time since connect_to_hive, in heartbeat intervals
    intervals_silent,  \* heartbeat intervals elapsed since the peer's last HEARTBEAT
    \* ---- hive_protocol.py: the operations that queue a message ----
    node_outgoing,     \* HiveProtocol.outgoing_queue, the messages as built
    node_calls,        \* calls made on the node so far
    shared_memory,     \* shared_memory['state'], None while absent
    memory_subscribers,\* memory_subscribers['state'], empty while absent
    attention_level,   \* cognitive_state['attention_level'], in hundredths
    consensus_participations, \* metrics['consensus_participations']
    node_last          \* the last call on the node, its arguments, messages it queued

protoVars == <<status, alert_callbacks, monitor_pc, is_running, proto_connected,
               shutdown_tasks, last_call, stop_called>>

sysVars == <<security_initialized, is_active, emergency_stop, session_start_time,
             stress_level, error_count, safety_violations, is_connected,
             connections, writer_closed, outgoing_queue, wire, pc, init_call,
             es_connected, end_calls, last_step>>

secVars == <<master_key, session_keys, current_key_id, keys_made, held,
             sec_last>>

\* the variables of the components modelled after the two systems
pqVars == <<max_size, queues, packet_count, enqueued, pending, overflowed,
            pq_last>>

wireVars == <<reader, reader_eof, receiving, rx_connected, message_queue,
              messages_received, handled, frames_made, in_flight, rx_last>>

consVars == <<consensus_requests, consensus_pc, consensus_clock,
              requests_made, consensus_last>>

fbVars == <<feedback_config, feedback_active, feedback_pc, feedback_handlers,
            feedback_queue, commands_received, feedback_calls, feedback_taken,
            feedback_delivered, feedback_last>>

procVars == <<signals_seen, commands_put, hive_message_queue, neural_pc,
              neural_active, chunks_seen, neural_outgoing, patterns_recognized,
              commands_sent, neural_errors, proc_last>>

hbVars == <<heartbeat_pc, heartbeats_put, heartbeats_handled,
            intervals_elapsed, intervals_silent>>

nodeVars == <<node_outgoing, node_calls, shared_memory, memory_subscribers,
              attention_level, consensus_participations, node_last>>

restVars == <<secVars, pqVars, wireVars, consVars, fbVars, procVars, hbVars, nodeVars>>

vars == <<protoVars, sysVars, restVars>>

-----------------------------------------------------------------------------
(* Bounds of the model *)

MaxCallbacks == 3

(* Thresholds of UserSafetyMonitor, in tenths (50.0 -> 500, 0.3 -> 3) *)
SeizureThreshold == 500
FatigueThreshold == 3
MaxStimulation == 100
MaxDurationMs == 1000
SamplesPerMs == 30

(* Mean signal power of the signals offered to check_signal_safety, in tenths *)
Powers == {0, FatigueThreshold - 1, FatigueThreshold, FatigueThreshold + 1,
           SeizureThreshold, SeizureThreshold + 1, 50 * SeizureThreshold}

(* Stimulation patterns: peak intensity in tenths, and number of samples *)
Intensities == {0, MaxStimulation, MaxStimulation + 1}
PatternLengths == {3000, MaxDurationMs * SamplesPerMs, MaxDurationMs * SamplesPerMs + 1}

StatusOrder == <<"safe", "warning", "critical", "emergency_stop">>

Rank(s) == CHOOSE i \in 1..Len(StatusOrder) : StatusOrder[i] = s

Call(op, safe, reason) == [op |-> op, is_safe |-> safe, reason |-> reason]

-----------------------------------------------------------------------------
(* UserSafetyMonitor *)

\* _trigger_alert, line 360: the status it leaves, given the status it found
StatusAfterAlert(s) == "warning"

\* NeuralLinkSystem._handle_safety_alert: schedules shutdown() when it sees
\* the emergency-stop status
HandleSafetyAlert(st, tasks) ==
    IF st = "emergency_stop" THEN tasks + 1 ELSE tasks

\* _trigger_alert, lines 361-362: the callbacks run in registration order,
\* each reading the status already assigned at line 360
RECURSIVE RunCallbacks(_, _, _)
RunCallbacks(cbs, st, tasks) ==
    IF cbs = <<>> THEN tasks
    ELSE RunCallbacks(Tail(cbs), st,
                      IF Head(cbs) = "_handle_safety_alert"
                      THEN HandleSafetyAlert(st, tasks) ELSE tasks)

\* the state change of one _trigger_alert call
TriggerAlertEffect ==
    /\ status' = StatusAfterAlert(status)
    /\ shutdown_tasks' = RunCallbacks(alert_callbacks, StatusAfterAlert(status),
                                      shutdown_tasks)

\* check_signal_safety: (is_safe, reason, alert raised) for a signal power
SignalVerdict(power) ==
    IF power > SeizureThreshold THEN <<FALSE, "seizure_risk", TRUE>>
    ELSE IF power < FatigueThreshold THEN <<FALSE, "fatigue", TRUE>>
    ELSE <<TRUE, "safe", FALSE>>

\* check_stimulation_safety: (is_safe, reason)
StimulationVerdict(intensity, samples) ==
    IF intensity > MaxStimulation THEN <<FALSE, "intensity_exceeded">>
    ELSE IF samples > MaxDurationMs * SamplesPerMs THEN <<FALSE, "duration_exceeded">>
    ELSE <<TRUE, "safe">>

AddAlertCallback ==
    /\ monitor_pc = "idle"
    /\ Len(alert_callbacks) < MaxCallbacks
    /\ alert_callbacks' = Append(alert_callbacks, "observer")
    /\ last_call' = Call("add_alert_callback", TRUE, "none")
    /\ UNCHANGED <<status, monitor_pc, is_running, proto_connected,
                   shutdown_tasks, stop_called>>
    /\ UNCHANGED <<sysVars, restVars>>

CheckSignalSafety(power) ==
    /\ monitor_pc = "idle"
    /\ LET v == SignalVerdict(power) IN
         /\ IF v[3] THEN TriggerAlertEffect
                    ELSE UNCHANGED <<status, shutdown_tasks>>
         /\ last_call' = Call("check_signal_safety", v[1], v[2])
    /\ UNCHANGED <<alert_callbacks, monitor_pc, is_running, proto_connected,
                   stop_called>>
    /\ UNCHANGED <<sysVars, restVars>>

CheckStimulationSafety(intensity, samples) ==
    /\ monitor_pc = "idle"
    /\ LET v == StimulationVerdict(intensity, samples) IN
         last_call' = Call("check_stimulation_safety", v[1], v[2])
    /\ UNCHANGED <<status, alert_callbacks, monitor_pc, is_running,
                   proto_connected, shutdown_tasks, stop_called>>
    /\ UNCHANGED <<sysVars, restVars>>

TriggerAlert ==
    /\ monitor_pc = "idle"
    /\ TriggerAlertEffect
    /\ last_call' = Call("_trigger_alert", TRUE, "none")
    /\ UNCHANGED <<alert_callbacks, monitor_pc, is_running, proto_connected,
                   stop_called>>
    /\ UNCHANGED <<sysVars, restVars>>

\* emergency_stop, line 366: the assignment before the nested _trigger_alert
EmergencyStopAssign ==
    /\ monitor_pc = "idle"
    /\ status' = "emergency_stop"
    /\ monitor_pc' = "emergency_stop"
    /\ UNCHANGED <<alert_callbacks, is_running, proto_connected,
                   shutdown_tasks, last_call, stop_called>>
    /\ UNCHANGED <<sysVars, restVars>>

\* emergency_stop, line 367: the nested _trigger_alert call, then the return.
\* The code is synchronous: nothing else runs while monitor_pc = "emergency_stop".
EmergencyStopAlert ==
    /\ monitor_pc = "emergency_stop"
    /\ TriggerAlertEffect
    /\ monitor_pc' = "idle"
    /\ last_call' = Call("emergency_stop", TRUE, "none")
    /\ stop_called' = TRUE
    /\ UNCHANGED <<alert_callbacks, is_running, proto_connected>>
    /\ UNCHANGED <<sysVars, restVars>>

-----------------------------------------------------------------------------
(* prototype NeuralLinkSystem *)

ProtoInitialize ==
    /\ monitor_pc = "idle"
    /\ ~is_running
    /\ Len(alert_callbacks) < MaxCallbacks
    /\ proto_connected' = TRUE
    /\ alert_callbacks' = Append(alert_callbacks, "_handle_safety_alert")
    /\ is_running' = TRUE
    /\ last_call' = Call("initialize", TRUE, "none")
    /\ UNCHANGED <<status, monitor_pc, shutdown_tasks, stop_called>>
    /\ UNCHANGED <<sysVars, restVars>>

\* shutdown(), awaited by the caller ("caller") or run as a task that
\* _handle_safety_alert scheduled ("task")
ShutdownSources == {"caller"} \cup (IF shutdown_tasks > 0 THEN {"task"} ELSE {})

ProtoShutdown(src) ==
    /\ monitor_pc = "idle"
    /\ is_running' = FALSE
    /\ proto_connected' = FALSE
    /\ shutdown_tasks' = IF src = "task" THEN shutdown_tasks - 1 ELSE shutdown_tasks
    /\ last_call' = Call("shutdown", TRUE, src)
    /\ UNCHANGED <<status, alert_callbacks, monitor_pc, stop_called>>
    /\ UNCHANGED <<sysVars, restVars>>

-----------------------------------------------------------------------------
(* NeuralLinkSystem, HiveProtocol, NeuralSecurityLayer *)

(* Bounds of the model: messages held by outgoing_queue, exceptions counted
   by the processing loop, recorded safety violations, and end_session or
   emergency_shutdown calls made by the caller (the safety loop and the
   emergency handler make theirs besides) *)
MaxQueue == 3
MaxErrors == 1
MaxViolations == 2
MaxEndCalls == 1

(* Program constants, error count as is, levels in hundredths *)
ErrorLimit == 10
EmergencyThreshold == 90

StressLevels == {0, 95}

Tasks == {"api", "safety", "neural", "send", "recv"}

Msg(type, info, priority) == [type |-> type, info |-> info, priority |-> priority]
NoMsg == Msg("none", "none", 0)

\* a handler that shuts down on one emergency type only
ShutdownTypesFailureOnly == {"system_failure"}

\* emergency types on which _handle_emergency shuts the system down
ShutdownTypes == {"system_failure", "safety_violation"}

\* emergency types found in the payload of a peer's EMERGENCY message: the
\* two _handle_emergency names and the two this program itself sends
EmergencyTypes == {"system_failure", "safety_violation",
                   "emergency_shutdown", "high_fatigue"}

\* the frames a peer may send: EMERGENCY messages of every type, a
\* HEARTBEAT, and bytes that do not decode
PeerFrames ==
    {Msg("EMERGENCY", t, 10) : t \in EmergencyTypes}
    \cup {Msg("HEARTBEAT", "active", 0), Msg("undecodable", "none", 0)}

Step(ret, disp, putn) == [returned |-> ret, dispatched |-> disp, put_neural |-> putn]

\* HiveProtocol.send_* : the queue after send_message(message)
SendEmergency(q, etype) == Append(q, Msg("EMERGENCY", etype, 10))
SendCommand(q, command) == Append(q, Msg("COMMAND", command, 2))
SendNeuralData(q) == Append(q, Msg("NEURAL_DATA", "pattern", 1))
SendSyncRequest(q) == Append(q, Msg("SYNC", "node_info", 0))

\* NeuralSecurityLayer.check_integrity: master key, session keys, current key
\* id and neural signature are all set by initialize(); the audit log is cut
\* to 500 entries whenever it passes 1000, so it never reaches 10000
CheckIntegrity == security_initialized

\* safety checks that take a stress level at the threshold for a violation
SafetyViolationAtThreshold ==
    IF ~CheckIntegrity THEN "integrity_check_failed"
    ELSE IF stress_level >= EmergencyThreshold THEN "high_stress_detected"
    ELSE IF error_count > ErrorLimit THEN "excessive_errors"
    ELSE "none"

\* _perform_safety_checks: the violation it records, "none" when it returns True
SafetyViolation ==
    IF ~CheckIntegrity THEN "integrity_check_failed"
    ELSE IF stress_level > EmergencyThreshold THEN "high_stress_detected"
    ELSE IF error_count > ErrorLimit THEN "excessive_errors"
    ELSE "none"

PerformSafetyChecks ==
    safety_violations' = IF SafetyViolation = "none" THEN safety_violations
                         ELSE Append(safety_violations, SafetyViolation)

FreshlyConstructed ==
    /\ ~security_initialized /\ ~is_active /\ ~emergency_stop /\ ~session_start_time
    /\ stress_level = 0 /\ error_count = 0 /\ safety_violations = <<>>
    /\ ~is_connected /\ connections = {} /\ outgoing_queue = <<>>
    /\ \A t \in Tasks \ {"api"} : pc[t] = "none"

NotCalled == [called |-> FALSE, fresh |-> FALSE, hive_ok |-> FALSE,
              sec_ok |-> FALSE, connect |-> "none", result |-> FALSE]

-----------------------------------------------------------------------------
(* the caller of the public methods awaits each call before the next *)

\* NeuralSecurityLayer.initialize() called on the layer directly
SecurityLayerInitialize ==
    /\ pc["api"] = "idle"
    /\ ~security_initialized
    /\ security_initialized' = TRUE
    /\ last_step' = Step("none", NoMsg, FALSE)
    /\ UNCHANGED <<is_active, emergency_stop, session_start_time, stress_level,
                   error_count, safety_violations, is_connected, connections,
                   writer_closed, outgoing_queue, wire, pc, init_call, es_connected, end_calls>>
    /\ UNCHANGED <<protoVars, restVars>>

\* cognitive_state['stress_level'] assigned from outside, as the tests do
SetStressLevel(level) ==
    /\ pc["api"] = "idle"
    /\ level # stress_level
    /\ stress_level' = level
    /\ last_step' = Step("none", NoMsg, FALSE)
    /\ UNCHANGED <<security_initialized, is_active, emergency_stop,
                   session_start_time, error_count, safety_violations,
                   is_connected, connections, writer_closed, outgoing_queue,
                   wire, pc, init_call, es_connected, end_calls>>
    /\ UNCHANGED <<protoVars, restVars>>

\* initialize(): hive_ok says whether open_connection succeeds, sec_ok whether
\* security_layer.initialize() does.  Until initialize has returned True no
\* other task exists, so nothing runs while it awaits open_connection.
Initialize(hive_ok, sec_ok) ==
    /\ pc["api"] = "idle"
    /\ ~(init_call.called /\ init_call.result)
    /\ Len(safety_violations) < MaxViolations
    /\ Len(outgoing_queue) < MaxQueue
    /\ PerformSafetyChecks
    /\ IF SafetyViolation # "none" \/ ~sec_ok
       THEN \* lines 122-129: return False
            /\ init_call' = [called |-> TRUE, fresh |-> FreshlyConstructed,
                             hive_ok |-> hive_ok, sec_ok |-> sec_ok,
                             connect |-> "none", result |-> FALSE]
            /\ last_step' = Step("initialize:False", NoMsg, FALSE)
            /\ UNCHANGED <<security_initialized, is_active, session_start_time,
                           is_connected, connections, outgoing_queue, pc>>
       ELSE \* lines 131-149
            /\ security_initialized' = TRUE
            /\ IF hive_ok
               THEN \* connect_to_hive, lines 111-123
                    /\ connections' = {"hive_master"}
                    /\ is_connected' = TRUE
                    /\ outgoing_queue' = SendSyncRequest(outgoing_queue)
                    /\ pc' = [pc EXCEPT !["recv"] = "created", !["send"] = "loop",
                                        !["safety"] = "created"]
               ELSE \* connect_to_hive, lines 125-127: the failure is logged
                    /\ is_connected' = FALSE
                    /\ pc' = [pc EXCEPT !["safety"] = "created"]
                    /\ UNCHANGED <<connections, outgoing_queue>>
            /\ is_active' = TRUE
            /\ session_start_time' = TRUE
            /\ init_call' = [called |-> TRUE, fresh |-> FreshlyConstructed,
                             hive_ok |-> hive_ok, sec_ok |-> sec_ok,
                             connect |-> IF hive_ok THEN "ok" ELSE "failed",
                             result |-> TRUE]
            /\ last_step' = Step("initialize:True", NoMsg, FALSE)
    /\ UNCHANGED <<emergency_stop, stress_level, error_count, writer_closed,
                   wire, es_connected, end_calls>>
    /\ UNCHANGED <<protoVars, restVars>>

\* start_session(); the model runs one processing loop
StartSession ==
    /\ pc["api"] = "idle"
    /\ pc["neural"] = "none"
    /\ IF ~is_active
       THEN /\ last_step' = Step("none", NoMsg, FALSE)
            /\ UNCHANGED <<outgoing_queue, pc>>
       ELSE /\ Len(outgoing_queue) < MaxQueue
            /\ pc' = [pc EXCEPT !["neural"] = "loop"]
            /\ outgoing_queue' = SendCommand(outgoing_queue, "session_start")
            /\ last_step' = Step("none", NoMsg, FALSE)
    /\ UNCHANGED <<security_initialized, is_active, emergency_stop,
                   session_start_time, stress_level, error_count,
                   safety_violations, is_connected, connections, writer_closed,
                   wire, init_call, es_connected, end_calls>>
    /\ UNCHANGED <<protoVars, restVars>>

-----------------------------------------------------------------------------
(* end_session, emergency_shutdown and HiveProtocol.disconnect *)

\* an end_session that leaves the session marked as it was
ActiveAfterEndSessionKept == is_active

\* end_session, line 498
ActiveAfterEndSession == FALSE

\* an emergency_shutdown that leaves the flag as it was
StopFlagAfterShutdownKept == emergency_stop

\* emergency_shutdown, line 510
StopFlagAfterShutdown == TRUE

\* a safety loop without the break after its teardown
AfterTeardownLoopsOn(t) ==
    IF t = "api" THEN "idle" ELSE IF t = "safety" THEN "sleep" ELSE "done"

\* where task t continues once the end_session or emergency_shutdown it
\* called has returned or raised: the safety loop breaks, the receive loop
\* finds is_connected False at its loop head
AfterTeardown(t) == IF t = "api" THEN "idle" ELSE "done"

\* end_session up to the first suspension: the session_end command is
\* queued on q, the session marked inactive, and disconnect() closes every
\* writer; with a connection it suspends in wait_closed before
\* connections.clear(), without one it returns
EndSessionFrom(t, outer, q, disp) ==
    /\ outgoing_queue' = SendCommand(q, "session_end")
    /\ is_active' = ActiveAfterEndSession
    /\ is_connected' = FALSE
    /\ writer_closed' = (writer_closed \/ connections # {})
    /\ pc' = [pc EXCEPT ![t] = IF connections # {} THEN outer
                                ELSE AfterTeardown(t)]
    /\ last_step' = Step(IF connections # {} THEN "none" ELSE outer, disp, FALSE)
    /\ UNCHANGED connections

\* emergency_shutdown up to the first suspension; disp is the message whose
\* handler called it, NoMsg otherwise
EmergencyShutdownFrom(t, disp) ==
    /\ Len(outgoing_queue) + 2 <= MaxQueue
    /\ emergency_stop' = StopFlagAfterShutdown
    /\ es_connected' = (es_connected \/
                        (is_connected /\ connections # {} /\ ~writer_closed))
    /\ EndSessionFrom(t, "emergency_shutdown",
                      SendEmergency(outgoing_queue, "emergency_shutdown"), disp)

EndSession ==
    /\ pc["api"] = "idle"
    /\ end_calls < MaxEndCalls
    /\ end_calls' = end_calls + 1
    /\ Len(outgoing_queue) < MaxQueue
    /\ EndSessionFrom("api", "end_session", outgoing_queue, NoMsg)
    /\ UNCHANGED <<security_initialized, emergency_stop, session_start_time,
                   stress_level, error_count, safety_violations, wire,
                   init_call, es_connected>>
    /\ UNCHANGED <<protoVars, restVars>>

EmergencyShutdown ==
    /\ pc["api"] = "idle"
    /\ end_calls < MaxEndCalls
    /\ end_calls' = end_calls + 1
    /\ EmergencyShutdownFrom("api", NoMsg)
    /\ UNCHANGED <<security_initialized, session_start_time, stress_level,
                   error_count, safety_violations, wire, init_call>>
    /\ UNCHANGED <<protoVars, restVars>>

\* disconnect() resumes after wait_closed: the loop over connections.values()
\* ends and connections.clear() runs, unless another disconnect() cleared the
\* dict meanwhile, in which case the iteration raises RuntimeError
DisconnectResume(t) ==
    /\ pc[t] \in {"end_session", "emergency_shutdown"}
    /\ connections' = {}
    /\ pc' = [pc EXCEPT ![t] = AfterTeardown(t)]
    /\ last_step' = Step(IF connections # {} THEN pc[t] ELSE "raised", NoMsg, FALSE)
    /\ UNCHANGED <<security_initialized, is_active, emergency_stop,
                   session_start_time, stress_level, error_count,
                   safety_violations, is_connected, writer_closed,
                   outgoing_queue, wire, init_call, es_connected, end_calls>>
    /\ UNCHANGED <<protoVars, restVars>>

-----------------------------------------------------------------------------
(* _safety_monitor_loop *)

SafetyLoopStart ==
    /\ pc["safety"] = "created"
    /\ pc' = [pc EXCEPT !["safety"] = IF is_active THEN "sleep" ELSE "done"]
    /\ last_step' = Step("none", NoMsg, FALSE)
    /\ UNCHANGED <<security_initialized, is_active, emergency_stop,
                   session_start_time, stress_level, error_count,
                   safety_violations, is_connected, connections, writer_closed,
                   outgoing_queue, wire, init_call, es_connected, end_calls>>
    /\ UNCHANGED <<protoVars, restVars>>

\* one pass after the sleep; duration_exceeded says whether the session has
\* lasted longer than max_session_duration
SafetyLoopWake(duration_exceeded) ==
    /\ pc["safety"] = "sleep"
    /\ PerformSafetyChecks
    /\ IF SafetyViolation # "none"
       THEN EmergencyShutdownFrom("safety", NoMsg)
       ELSE IF session_start_time /\ duration_exceeded
       THEN /\ Len(outgoing_queue) < MaxQueue
            /\ EndSessionFrom("safety", "end_session", outgoing_queue, NoMsg)
            /\ UNCHANGED <<emergency_stop, es_connected>>
       ELSE /\ pc' = [pc EXCEPT !["safety"] = IF is_active THEN "sleep" ELSE "done"]
            /\ last_step' = Step("none", NoMsg, FALSE)
            /\ UNCHANGED <<emergency_stop, es_connected, outgoing_queue,
                           is_active, is_connected, writer_closed, connections>>
    /\ UNCHANGED <<security_initialized, session_start_time, stress_level,
                   error_count, wire, init_call, end_calls>>
    /\ UNCHANGED <<protoVars, restVars>>

-----------------------------------------------------------------------------
(* _neural_processing_loop *)

\* a loop condition that does not look at the emergency flag
NeuralLoopCondActiveOnly == is_active

\* line 205
NeuralLoopCond == is_active /\ ~emergency_stop

\* one iteration: no recognised pattern; a pattern, encrypted and queued;
\* the same followed by a high-fatigue alert; or an exception (counted,
\* the loop goes on)
NeuralOutcomes == {"nothing", "pattern", "pattern_fatigue", "error"}

NeuralLoopStep(outcome) ==
    /\ pc["neural"] = "loop"
    /\ IF ~NeuralLoopCond
       THEN /\ pc' = [pc EXCEPT !["neural"] = "done"]
            /\ last_step' = Step("none", NoMsg, FALSE)
            /\ UNCHANGED <<outgoing_queue, error_count>>
       ELSE /\ outcome = "pattern" => Len(outgoing_queue) < MaxQueue
            /\ outcome = "pattern_fatigue" => Len(outgoing_queue) + 2 <= MaxQueue
            /\ outcome = "error" => error_count < MaxErrors
            /\ outgoing_queue' =
                 IF outcome = "pattern" THEN SendNeuralData(outgoing_queue)
                 ELSE IF outcome = "pattern_fatigue"
                 THEN SendEmergency(SendNeuralData(outgoing_queue), "high_fatigue")
                 ELSE outgoing_queue
            /\ error_count' = IF outcome = "error" THEN error_count + 1 ELSE error_count
            /\ last_step' = Step("none", NoMsg, outcome \in {"pattern", "pattern_fatigue"})
            /\ UNCHANGED pc
    /\ UNCHANGED <<security_initialized, is_active, emergency_stop,
                   session_start_time, stress_level, safety_violations,
                   is_connected, connections, writer_closed, wire, init_call,
                   es_connected, end_calls>>
    /\ UNCHANGED <<protoVars, restVars>>

-----------------------------------------------------------------------------
(* HiveProtocol._send_messages *)

\* lines 179-184: the message reaches the peer through every open
\* connection; a closed writer takes no data (drain then raises and the
\* exception is logged), and with no connection nothing is written
WireAfterWrite(m) ==
    IF connections # {} /\ ~writer_closed THEN wire \cup {m} ELSE wire

\* at the loop head: leave when disconnected, else take the next message,
\* suspending in queue.get() when there is none.  The loop is given a step
\* per message, which allows every interleaving the event loop can produce
\* and some it cannot.
SendLoopHead ==
    /\ pc["send"] = "loop"
    /\ IF ~is_connected
       THEN /\ pc' = [pc EXCEPT !["send"] = "done"]
            /\ UNCHANGED <<outgoing_queue, wire>>
       ELSE IF outgoing_queue = <<>>
       THEN /\ pc' = [pc EXCEPT !["send"] = "get"]
            /\ UNCHANGED <<outgoing_queue, wire>>
       ELSE /\ outgoing_queue' = Tail(outgoing_queue)
            /\ wire' = WireAfterWrite(Head(outgoing_queue))
            /\ UNCHANGED pc
    /\ last_step' = Step("none", NoMsg, FALSE)
    /\ UNCHANGED <<security_initialized, is_active, emergency_stop,
                   session_start_time, stress_level, error_count,
                   safety_violations, is_connected, connections, writer_closed,
                   init_call, es_connected, end_calls>>
    /\ UNCHANGED <<protoVars, restVars>>

\* queue.get() returns: the message is sent whatever is_connected is by now
SendLoopGet ==
    /\ pc["send"] = "get"
    /\ outgoing_queue # <<>>
    /\ outgoing_queue' = Tail(outgoing_queue)
    /\ wire' = WireAfterWrite(Head(outgoing_queue))
    /\ pc' = [pc EXCEPT !["send"] = "loop"]
    /\ last_step' = Step("none", NoMsg, FALSE)
    /\ UNCHANGED <<security_initialized, is_active, emergency_stop,
                   session_start_time, stress_level, error_count,
                   safety_violations, is_connected, connections, writer_closed,
                   init_call, es_connected, end_calls>>
    /\ UNCHANGED <<protoVars, restVars>>

-----------------------------------------------------------------------------
(* HiveProtocol._receive_messages, _handle_message and the handlers that
   NeuralLinkSystem._setup_message_handlers registers *)

RecvLoopStart ==
    /\ pc["recv"] = "created"
    /\ pc' = [pc EXCEPT !["recv"] = IF is_connected THEN "read" ELSE "done"]
    /\ last_step' = Step("none", NoMsg, FALSE)
    /\ UNCHANGED <<security_initialized, is_active, emergency_stop,
                   session_start_time, stress_level, error_count,
                   safety_violations, is_connected, connections, writer_closed,
                   outgoing_queue, wire, init_call, es_connected, end_calls>>
    /\ UNCHANGED <<protoVars, restVars>>

\* _handle_emergency, line 410
ShutsDown(m) == m.type = "EMERGENCY" /\ m.info \in ShutdownTypes

\* a frame arrives while the connection is open
RecvFrame(m) ==
    /\ pc["recv"] = "read"
    /\ ~writer_closed
    /\ IF ShutsDown(m)
       THEN EmergencyShutdownFrom("recv", m)
       ELSE /\ pc' = [pc EXCEPT !["recv"] = IF is_connected THEN "read" ELSE "done"]
            /\ last_step' = Step("none", IF m.type = "undecodable" THEN NoMsg ELSE m,
                                 FALSE)
            /\ UNCHANGED <<emergency_stop, es_connected, outgoing_queue,
                           is_active, is_connected, writer_closed, connections>>
    /\ UNCHANGED <<security_initialized, session_start_time, stress_level,
                   error_count, safety_violations, wire, init_call, end_calls>>
    /\ UNCHANGED <<protoVars, restVars>>

\* readexactly raises IncompleteReadError (the peer, or this side, closed
\* the connection): the loop breaks
RecvIncomplete ==
    /\ pc["recv"] = "read"
    /\ pc' = [pc EXCEPT !["recv"] = "done"]
    /\ last_step' = Step("none", NoMsg, FALSE)
    /\ UNCHANGED <<security_initialized, is_active, emergency_stop,
                   session_start_time, stress_level, error_count,
                   safety_violations, is_connected, connections, writer_closed,
                   outgoing_queue, wire, init_call, es_connected, end_calls>>
    /\ UNCHANGED <<protoVars, restVars>>

-----------------------------------------------------------------------------
(* _perform_safety_checks with each of its three conditions on either side  *)
(* of its limit, and the safety monitor loop beside a processing loop that  *)
(* raises more often than the error limit allows                            *)

\* stress levels on both sides of emergency_threshold and at it
SafetyStressLevels == {80, EmergencyThreshold, 95}

\* exceptions the processing loop counts in one run of the safety model
SafetyMaxErrors == ErrorLimit + 1

\* _perform_safety_checks() awaited by the caller, as
\* test_cognitive_monitoring does
PerformSafetyChecksCall ==
    /\ pc["api"] = "idle"
    /\ SafetyViolation # "none" => Len(safety_violations) < MaxViolations
    /\ PerformSafetyChecks
    /\ last_step' = Step(IF SafetyViolation = "none" THEN "safety_checks:True"
                         ELSE "safety_checks:False", NoMsg, FALSE)
    /\ UNCHANGED <<security_initialized, is_active, emergency_stop,
                   session_start_time, stress_level, error_count,
                   is_connected, connections, writer_closed, outgoing_queue,
                   wire, pc, init_call, es_connected, end_calls>>
    /\ UNCHANGED <<protoVars, restVars>>

\* _neural_processing_loop, lines 205-227: an iteration that raises; the
\* exception is counted at line 226 and the loop goes round without sleeping
NeuralLoopRaises ==
    /\ pc["neural"] = "loop"
    /\ NeuralLoopCond
    /\ error_count < SafetyMaxErrors
    /\ error_count' = error_count + 1
    /\ last_step' = Step("none", NoMsg, FALSE)
    /\ UNCHANGED <<security_initialized, is_active, emergency_stop,
                   session_start_time, stress_level, safety_violations,
                   is_connected, connections, writer_closed, outgoing_queue,
                   wire, pc, init_call, es_connected, end_calls>>
    /\ UNCHANGED <<protoVars, restVars>>

NextSafety ==
    \/ SecurityLayerInitialize
    \/ \E l \in SafetyStressLevels : SetStressLevel(l)
    \/ PerformSafetyChecksCall
    \/ \E h \in BOOLEAN, s \in BOOLEAN : Initialize(h, s)
    \/ StartSession
    \/ NeuralLoopRaises
    \/ SafetyLoopStart
    \/ \E d \in BOOLEAN : SafetyLoopWake(d)
    \/ \E t \in {"safety"} : DisconnectResume(t)
    \/ SendLoopHead
    \/ SendLoopGet

-----------------------------------------------------------------------------

InitSys ==
    /\ security_initialized = FALSE
    /\ is_active = FALSE
    /\ emergency_stop = FALSE
    /\ session_start_time = FALSE
    /\ stress_level = 0
    /\ error_count = 0
    /\ safety_violations = <<>>
    /\ is_connected = FALSE
    /\ connections = {}
    /\ writer_closed = FALSE
    /\ outgoing_queue = <<>>
    /\ wire = {}
    /\ pc = [t \in Tasks |-> IF t = "api" THEN "idle" ELSE "none"]
    /\ init_call = NotCalled
    /\ es_connected = FALSE
    /\ end_calls = 0
    /\ last_step = Step("none", NoMsg, FALSE)

NextSys ==
    \/ SecurityLayerInitialize
    \/ \E l \in StressLevels : SetStressLevel(l)
    \/ \E h \in BOOLEAN, s \in BOOLEAN : Initialize(h, s)
    \/ StartSession
    \/ EndSession
    \/ EmergencyShutdown
    \/ \E t \in {"api", "safety", "recv"} : DisconnectResume(t)
    \/ SafetyLoopStart
    \/ \E d \in BOOLEAN : SafetyLoopWake(d)
    \/ \E o \in NeuralOutcomes : NeuralLoopStep(o)
    \/ SendLoopHead
    \/ SendLoopGet
    \/ RecvLoopStart
    \/ \E m \in PeerFrames : RecvFrame(m)
    \/ RecvIncomplete

-----------------------------------------------------------------------------

InitProto ==
    /\ status = "safe"
    /\ alert_callbacks = <<>>
    /\ monitor_pc = "idle"
    /\ is_running = FALSE
    /\ proto_connected = FALSE
    /\ shutdown_tasks = 0
    /\ last_call = Call("none", TRUE, "none")
    /\ stop_called = FALSE

NextProto ==
    \/ AddAlertCallback
    \/ \E p \in Powers : CheckSignalSafety(p)
    \/ \E i \in Intensities, n \in PatternLengths : CheckStimulationSafety(i, n)
    \/ TriggerAlert
    \/ EmergencyStopAssign
    \/ EmergencyStopAlert
    \/ ProtoInitialize
    \/ \E src \in ShutdownSources : ProtoShutdown(src)

-----------------------------------------------------------------------------
(* NeuralSecurityLayer: the session key ring, encrypt_neural_data and
   decrypt_neural_data.  Keys, nonces and plaintexts are abstract values; a
   session key is the number of the rotation that generated it, a master key
   the number of the initialize() call that generated it.  A key_id is a
   random hex string: the ids below are numbers whose order stands for the
   string order that min() applies to them. *)

(* Bounds of the model: key ids to draw from, session keys generated,
   initialize() calls *)
MaxKeyId == 4
MaxKeys == 4
MaxMasters == 2

(* _rotate_session_keys, line 383 *)
RingLimit == 3

KeyIds == 1..MaxKeyId
Plaintexts == {"focus", "relax"}
None == "None"

\* AES-GCM under key k and nonce n: the ciphertext of pt, the tag over the
\* ciphertext and the additional data, and decryption of a ciphertext c
GcmCiphertext(k, n, pt) == [key |-> k, nonce |-> n, pt |-> pt]
GcmTag(k, n, c, aad) == [key |-> k, nonce |-> n, over |-> c, aad |-> aad]
GcmPlaintext(k, n, c) == IF c.key = k /\ c.nonce = n THEN c.pt ELSE "garbage"

\* the package without its signature, which is what _sign_data is given
SignedFields(p) == [ciphertext |-> p.ciphertext, nonce |-> p.nonce,
                    tag |-> p.tag, metadata |-> p.metadata, key_id |-> p.key_id]

\* _sign_data: HMAC-SHA256 under a key derived from the master key
SignData(mk, fields) == [mk |-> mk, over |-> fields]

\* a verification that accepts every package
VerifySignatureSkipped(p) == TRUE

\* _verify_signature; with master_key None _sign_data raises, which
\* decrypt_neural_data turns into None like a failed verification
VerifySignature(p) ==
    /\ p.has_signature
    /\ master_key # 0
    /\ p.signature = SignData(master_key, SignedFields(p))

\* decrypt_neural_data
DecryptNeuralData(p) ==
    IF ~VerifySignature(p) THEN None
    ELSE IF p.key_id \notin DOMAIN session_keys THEN None
    ELSE LET session_key == session_keys[p.key_id] IN
         IF p.tag # GcmTag(session_key, p.nonce, p.ciphertext, p.metadata)
         THEN None
         ELSE GcmPlaintext(session_key, p.nonce, p.ciphertext)

\* min(self.session_keys.keys()), line 384
OldestKey(keys) == CHOOSE k \in DOMAIN keys : \A j \in DOMAIN keys : k <= j

\* a rotation that never cleans old keys
KeysAfterRotateKeepAll(keys, key_id, new_key) ==
    [k \in DOMAIN keys \cup {key_id} |-> IF k = key_id THEN new_key ELSE keys[k]]

\* _rotate_session_keys, lines 378-385: the ring after new_key is stored
\* under key_id
KeysAfterRotate(keys, key_id, new_key) ==
    LET stored == [k \in DOMAIN keys \cup {key_id} |->
                      IF k = key_id THEN new_key ELSE keys[k]]
    IN  IF Cardinality(DOMAIN stored) > RingLimit
        THEN [k \in DOMAIN stored \ {OldestKey(stored)} |-> stored[k]]
        ELSE stored


\* a package that names the key id read before the automatic rotation
PackageKeyIdBeforeRotation(before, after) == before

\* encrypt_neural_data, line 170: key_id is read after _get_current_session_key
PackageKeyId(before, after) == after

\* a call, what it returned, the package it was about (as encrypt_neural_data
\* returned it) and what was done to that package before the call
SecResult(op, result, entry, tamper) ==
    [op |-> op, result |-> result, entry |-> entry, tamper |-> tamper]

NoPackage ==
    [ciphertext |-> GcmCiphertext(0, 0, "none"), nonce |-> 0,
     tag |-> GcmTag(0, 0, GcmCiphertext(0, 0, "none"), "none"),
     metadata |-> "none", key_id |-> 0, has_signature |-> FALSE,
     signature |-> SignData(0, [ciphertext |-> GcmCiphertext(0, 0, "none"),
                                nonce |-> 0,
                                tag |-> GcmTag(0, 0, GcmCiphertext(0, 0, "none"), "none"),
                                metadata |-> "none", key_id |-> 0])]

\* a package as encrypt_neural_data returned it, with what went into it
Entry(pkg, plain, key, mk) == [pkg |-> pkg, plain |-> plain, key |-> key, master |-> mk]
NoEntry == Entry(NoPackage, "none", 0, 0)

\* ids token_hex may return: one neither in the ring nor named by the
\* package the caller holds (a repeated 128-bit id is not a case the model
\* considers)
FreshKeyIds == {k \in KeyIds : k \notin DOMAIN session_keys /\ k # held.pkg.key_id}

\* what a party on the path can do to a package p: nothing, strip or alter
\* the signature, alter one signed field
TamperedPackages(p) ==
    {[kind |-> "none", pkg |-> p],
     [kind |-> "no_signature", pkg |-> [p EXCEPT !.has_signature = FALSE]],
     [kind |-> "signature", pkg |-> [p EXCEPT !.signature.mk = -1]],
     [kind |-> "ciphertext", pkg |-> [p EXCEPT !.ciphertext.pt = "garbled"]],
     [kind |-> "nonce", pkg |-> [p EXCEPT !.nonce = @ + 1]],
     [kind |-> "tag", pkg |-> [p EXCEPT !.tag.aad = "garbled"]],
     [kind |-> "metadata", pkg |-> [p EXCEPT !.metadata = "garbled"]]}
    \cup {[kind |-> "key_id", pkg |-> [p EXCEPT !.key_id = k]] :
             k \in KeyIds \ {p.key_id}}

\* the body of _rotate_session_keys
RotateSessionKeys(key_id) ==
    /\ keys_made < MaxKeys
    /\ key_id \in FreshKeyIds
    /\ session_keys' = KeysAfterRotate(session_keys, key_id, keys_made + 1)
    /\ current_key_id' = key_id
    /\ keys_made' = keys_made + 1

\* NeuralSecurityLayer.initialize(): a new master key, then the first rotation
SecInitialize(key_id) ==
    /\ master_key < MaxMasters
    /\ master_key' = master_key + 1
    /\ RotateSessionKeys(key_id)
    /\ sec_last' = SecResult("initialize", "True", NoEntry, "none")
    /\ UNCHANGED held
    /\ UNCHANGED <<protoVars, sysVars, pqVars, wireVars, consVars, fbVars, procVars, hbVars, nodeVars>>

\* _rotate_session_keys called on its own
SecRotate(key_id) ==
    /\ RotateSessionKeys(key_id)
    /\ sec_last' = SecResult("rotate", None, NoEntry, "none")
    /\ UNCHANGED <<master_key, held>>
    /\ UNCHANGED <<protoVars, sysVars, pqVars, wireVars, consVars, fbVars, procVars, hbVars, nodeVars>>

\* encrypt_neural_data(plain); rotation_due says whether key_rotation_interval
\* has passed, in which case _get_current_session_key rotates to key_id first;
\* keep says whether the caller keeps the package for a later decryption.
\* It raises when the current key is not in the ring (KeyError, or
\* AttributeError before the first rotation) or there is no master key.
EncryptNeuralData(plain, rotation_due, key_id, keep) ==
    /\ IF rotation_due THEN RotateSessionKeys(key_id)
       ELSE key_id = current_key_id /\ UNCHANGED <<session_keys, current_key_id, keys_made>>
    /\ LET keys == IF rotation_due
                   THEN KeysAfterRotate(session_keys, key_id, keys_made + 1)
                   ELSE session_keys
           current == IF rotation_due THEN key_id ELSE current_key_id
       IN  IF current \notin DOMAIN keys \/ master_key = 0
           THEN /\ sec_last' = SecResult("encrypt", "raised", NoEntry, "none")
                /\ UNCHANGED held
           ELSE LET session_key == keys[current]
                    ciphertext == GcmCiphertext(session_key, 1, plain)
                    fields == [ciphertext |-> ciphertext, nonce |-> 1,
                               tag |-> GcmTag(session_key, 1, ciphertext, "neural_signal"),
                               metadata |-> "neural_signal",
                               key_id |-> PackageKeyId(current_key_id, current)]
                    pkg == [ciphertext |-> fields.ciphertext, nonce |-> fields.nonce,
                            tag |-> fields.tag, metadata |-> fields.metadata,
                            key_id |-> fields.key_id, has_signature |-> TRUE,
                            signature |-> SignData(master_key, fields)]
                    entry == Entry(pkg, plain, session_key, master_key)
                IN  /\ sec_last' = SecResult("encrypt", "package", entry, "none")
                    /\ held' = IF keep THEN entry ELSE held
    /\ UNCHANGED master_key
    /\ UNCHANGED <<protoVars, sysVars, pqVars, wireVars, consVars, fbVars, procVars, hbVars, nodeVars>>

\* decrypt_neural_data on the package the caller holds, as it was or altered
\* on the way
SecDecrypt(x) ==
    /\ held # NoEntry
    /\ sec_last' = SecResult("decrypt", DecryptNeuralData(x.pkg), held, x.kind)
    /\ UNCHANGED <<master_key, session_keys, current_key_id, keys_made, held>>
    /\ UNCHANGED <<protoVars, sysVars, pqVars, wireVars, consVars, fbVars, procVars, hbVars, nodeVars>>

InitSec ==
    /\ master_key = 0
    /\ session_keys = [k \in {} |-> 0]
    /\ current_key_id = 0
    /\ keys_made = 0
    /\ held = NoEntry
    /\ sec_last = SecResult("none", None, NoEntry, "none")

NextSec ==
    \/ \E k \in KeyIds : SecInitialize(k)
    \/ \E k \in KeyIds : SecRotate(k)
    \/ \E p \in Plaintexts, due \in BOOLEAN, k \in KeyIds \cup {0}, keep \in BOOLEAN :
          EncryptNeuralData(p, due, k, keep)
    \/ \E x \in TamperedPackages(held.pkg) : SecDecrypt(x)

-----------------------------------------------------------------------------
(* performance_optimizer.py: PriorityQueue.  A packet is the number of the
   enqueue call that brought it. *)

(* Bound of the model: enqueue calls *)
MaxPackets == 4

\* PriorityQueue(max_size): the sizes the queue is constructed with
MaxSizes == {2, 4}

\* dequeue, line 175: the lanes in the order dequeue looks at them
LaneOrder == <<"critical", "high", "normal", "low">>
Lanes == {LaneOrder[i] : i \in 1..Len(LaneOrder)}

\* the priority arguments offered to enqueue: the four lanes and one that
\* names no lane
Priorities == Lanes \cup {"urgent"}

\* __init__, lines 159-164: the maxlen of each lane's deque
Capacity(lane) ==
    IF lane = "critical" THEN max_size \div 4
    ELSE IF lane = "high" THEN max_size \div 2
    ELSE max_size

\* collections.deque.append with maxlen: x is appended on the right and,
\* the deque being over maxlen then, the leftmost entry is removed
DequeAppend(q, x, maxlen) ==
    LET appended == Append(q, x)
    IN  IF Len(appended) > maxlen THEN Tail(appended) ELSE appended

\* a dequeue that takes the newest packet of the lane
PopLeftTakesNewest(q) == [packet |-> q[Len(q)], rest |-> SubSeq(q, 1, Len(q) - 1)]

\* deque.popleft()
PopLeft(q) == [packet |-> Head(q), rest |-> Tail(q)]

\* dequeue: the first lane in LaneOrder that holds a packet, 0 when none does
FirstLaneWithPacket ==
    IF \A i \in 1..Len(LaneOrder) : queues[LaneOrder[i]] = <<>> THEN 0
    ELSE CHOOSE i \in 1..Len(LaneOrder) :
            /\ queues[LaneOrder[i]] # <<>>
            /\ \A j \in 1..(i - 1) : queues[LaneOrder[j]] = <<>>

PqCall(op, lane, packet) == [op |-> op, lane |-> lane, packet |-> packet]

\* PriorityQueue(size)
PqConstruct(size) ==
    /\ max_size = 0
    /\ max_size' = size
    /\ UNCHANGED <<queues, packet_count, enqueued, pending, overflowed, pq_last>>
    /\ UNCHANGED <<protoVars, sysVars, secVars, wireVars, consVars, fbVars, procVars, hbVars, nodeVars>>

\* enqueue(packet, priority)
Enqueue(priority) ==
    /\ max_size # 0
    /\ enqueued < MaxPackets
    /\ enqueued' = enqueued + 1
    /\ IF priority \in Lanes
       THEN /\ queues' = [queues EXCEPT ![priority] =
                             DequeAppend(@, enqueued + 1, Capacity(priority))]
            /\ packet_count' = packet_count + 1
            /\ pending' = pending \cup {[id |-> enqueued + 1, lane |-> priority]}
            /\ overflowed' = (overflowed \/ Len(queues[priority]) >= Capacity(priority))
       ELSE UNCHANGED <<queues, packet_count, pending, overflowed>>
    /\ pq_last' = PqCall("enqueue", priority, enqueued + 1)
    /\ UNCHANGED max_size
    /\ UNCHANGED <<protoVars, sysVars, secVars, wireVars, consVars, fbVars, procVars, hbVars, nodeVars>>

\* dequeue(); packet 0 stands for None
Dequeue ==
    /\ max_size # 0
    /\ LET i == FirstLaneWithPacket IN
         IF i = 0
         THEN /\ pq_last' = PqCall("dequeue", "none", 0)
              /\ UNCHANGED <<queues, packet_count, pending>>
         ELSE LET lane == LaneOrder[i]
                  popped == PopLeft(queues[lane])
              IN  /\ queues' = [queues EXCEPT ![lane] = popped.rest]
                  /\ packet_count' = packet_count - 1
                  /\ pending' = {p \in pending : p.id # popped.packet}
                  /\ pq_last' = PqCall("dequeue", lane, popped.packet)
    /\ UNCHANGED <<max_size, enqueued, overflowed>>
    /\ UNCHANGED <<protoVars, sysVars, secVars, wireVars, consVars, fbVars, procVars, hbVars, nodeVars>>

InitPq ==
    /\ max_size = 0
    /\ queues = [lane \in Lanes |-> <<>>]
    /\ packet_count = 0
    /\ enqueued = 0
    /\ pending = {}
    /\ overflowed = FALSE
    /\ pq_last = PqCall("none", "none", 0)

NextPq ==
    \/ \E size \in MaxSizes : PqConstruct(size)
    \/ \E priority \in Priorities : Enqueue(priority)
    \/ Dequeue

-----------------------------------------------------------------------------
(* hive_protocol.py: HiveMessage.to_bytes / from_bytes and the frames of    *)
(* _send_messages and _receive_messages.                                    *)
(*                                                                          *)
(* A byte string is a sequence.  The four bytes struct.pack writes are     *)
(* numbers; the flag byte and the tokens of the JSON text are records      *)
(* [t, v] of two strings (punctuation, strings, numbers and literals are   *)
(* told apart as json.loads tells them apart); a Fernet token is the pair  *)
(* of its ciphertext and its HMAC.  Payloads are dicts of string keys and  *)
(* string values, which is what json.dumps takes and json.loads returns.   *)

\* frames the sending loop writes in one run
MaxFrames == 3

\* class MessageType: member name -> value
MessageTypeValues ==
    [NEURAL_DATA |-> "neural_data", COMMAND |-> "command",
     FEEDBACK |-> "feedback", SYNC |-> "sync", HEARTBEAT |-> "heartbeat",
     CONSENSUS_REQUEST |-> "consensus_request",
     CONSENSUS_VOTE |-> "consensus_vote", MEMORY_SHARE |-> "memory_share",
     EMERGENCY |-> "emergency"]

MessageTypeNames == DOMAIN MessageTypeValues

\* message_type.value, line 54
MessageTypeValue(name) == MessageTypeValues[name]

\* a from_bytes that leaves the decoded message_type as the string read
MessageTypeOfKeepsValue(value) == value

\* MessageType(value), line 64; applied to the values of the enum only
MessageTypeOf(value) ==
    CHOOSE name \in MessageTypeNames : MessageTypeValues[name] = value

\* the types of the messages sent in the model
SentTypes == {"COMMAND", "EMERGENCY"}

\* send_command (priority=2) and send_emergency (priority=10)
PriorityOf(message_type) == IF message_type = "EMERGENCY" THEN 10 ELSE 2

\* the payload dicts, as sequences of (key, value) in insertion order
PayloadOf(message_type) ==
    IF message_type = "EMERGENCY"
    THEN << <<"emergency_type", "neural_stress">>, <<"details", "stress">> >>
    ELSE << <<"command", "activate_module">> >>

\* message_id strings, one per message
MessageIds == <<"m1", "m2", "m3", "m4", "m5">>

\* the numbers of the model's messages: timestamps and priorities
Numbers == 0..10

\* HiveMessage(...), the dataclass
HiveMessage(message_id, timestamp, source_id, message_type, payload, priority, encrypted) ==
    [message_id |-> message_id, timestamp |-> timestamp,
     source_id |-> source_id, message_type |-> message_type,
     payload |-> payload, priority |-> priority, encrypted |-> encrypted]

NoMessage == HiveMessage("", 0, "", "NEURAL_DATA", <<>>, 0, FALSE)

\* ---- json.dumps ----
Punct(c) == [t |-> "punct", v |-> c]
JsonString(s) == [t |-> "str", v |-> s]
JsonNumber(n) == [t |-> "num", v |-> ToString(n)]
JsonBool(b) == [t |-> "lit", v |-> IF b THEN "true" ELSE "false"]

\* a dict of strings: { key: value, ... }
JsonObject(d) ==
    <<Punct("{")>>
    \o [i \in 1..(2 * Len(d)) |->
           JsonString(d[(i + 1) \div 2][IF i % 2 = 1 THEN 1 ELSE 2])]
    \o <<Punct("}")>>

\* HiveMessage.to_bytes, lines 48-59
ToBytes(m) ==
    <<Punct("{"),
      JsonString("message_id"), JsonString(m.message_id),
      JsonString("timestamp"), JsonNumber(m.timestamp),
      JsonString("source_id"), JsonString(m.source_id),
      JsonString("message_type"), JsonString(MessageTypeValue(m.message_type)),
      JsonString("payload")>>
    \o JsonObject(m.payload)
    \o <<JsonString("priority"), JsonNumber(m.priority),
         JsonString("encrypted"), JsonBool(m.encrypted),
         Punct("}")>>

\* ---- json.loads ----
IsNumberText(tok) == tok.t = "num" /\ \E n \in Numbers : ToString(n) = tok.v
ParseNumber(tok) == CHOOSE n \in Numbers : ToString(n) = tok.v
IsBoolText(tok) == tok.t = "lit" /\ tok.v \in {"true", "false"}
ParseBool(tok) == tok.v = "true"

\* the text between positions first and last is a dict of strings
IsObjectText(data, first, last) ==
    /\ last > first
    /\ (last - first) % 2 = 1
    /\ data[first] = Punct("{")
    /\ data[last] = Punct("}")
    /\ \A i \in (first + 1)..(last - 1) : data[i].t = "str"

ParseObject(data, first, last) ==
    [j \in 1..((last - first - 1) \div 2) |->
        <<data[first + 2 * j - 1].v, data[first + 2 * j].v>>]

\* json.loads accepts the text and it has the seven keys of to_bytes
IsMessageText(data) ==
    /\ Len(data) >= 17
    /\ data[1] = Punct("{")
    /\ data[2] = JsonString("message_id") /\ data[3].t = "str"
    /\ data[4] = JsonString("timestamp") /\ IsNumberText(data[5])
    /\ data[6] = JsonString("source_id") /\ data[7].t = "str"
    /\ data[8] = JsonString("message_type") /\ data[9].t = "str"
    /\ data[10] = JsonString("payload")
    /\ IsObjectText(data, 11, Len(data) - 5)
    /\ data[Len(data) - 4] = JsonString("priority")
    /\ IsNumberText(data[Len(data) - 3])
    /\ data[Len(data) - 2] = JsonString("encrypted")
    /\ IsBoolText(data[Len(data) - 1])
    /\ data[Len(data)] = Punct("}")

\* HiveMessage.from_bytes, lines 61-66: ok is FALSE when json.loads or
\* MessageType(...) raises
FromBytes(data) ==
    IF /\ IsMessageText(data)
       /\ \E name \in MessageTypeNames : MessageTypeValues[name] = data[9].v
    THEN [ok |-> TRUE,
          message |-> HiveMessage(data[3].v, ParseNumber(data[5]), data[7].v,
                                  MessageTypeOf(data[9].v),
                                  ParseObject(data, 11, Len(data) - 5),
                                  ParseNumber(data[Len(data) - 3]),
                                  ParseBool(data[Len(data) - 1]))]
    ELSE [ok |-> FALSE, message |-> NoMessage]

\* ---- Fernet ----
\* the key both ends were constructed with (encryption_key, line 73)
encryption_key == 1

FernetHmac(key, ciphertext) ==
    [part |-> "hmac", key |-> key, over |-> ciphertext]

\* Fernet.encrypt: ciphertext and the HMAC over it
FernetEncrypt(key, data) ==
    LET ciphertext == [part |-> "ciphertext", key |-> key, data |-> data]
    IN  <<ciphertext, FernetHmac(key, ciphertext)>>

\* a decrypt that does not check the HMAC
FernetDecryptUnverified(key, token) ==
    [ok |-> Len(token) = 2 /\ token[1].key = key, data |-> token[1].data]

\* Fernet.decrypt: InvalidToken (ok FALSE) unless the HMAC verifies
FernetDecrypt(key, token) ==
    IF /\ Len(token) = 2
       /\ token[2] = FernetHmac(key, token[1])
       /\ token[1].key = key
    THEN [ok |-> TRUE, data |-> token[1].data]
    ELSE [ok |-> FALSE, data |-> <<>>]

\* ---- the frame ----
PlainFlag == [t |-> "byte", v |-> "0x00"]
EncryptedFlag == [t |-> "byte", v |-> "0x01"]

\* struct.pack('!I', n) and struct.unpack('!I', b)[0]
Pack(n) ==
    <<(n \div 16777216) % 256, (n \div 65536) % 256, (n \div 256) % 256,
      n % 256>>

Unpack(b) == b[1] * 16777216 + b[2] * 65536 + b[3] * 256 + b[4]

\* _send_messages, lines 170-176: serialized, encrypted if asked, flag byte first
MessageData(m) ==
    IF m.encrypted
    THEN <<EncryptedFlag>> \o FernetEncrypt(encryption_key, ToBytes(m))
    ELSE <<PlainFlag>> \o ToBytes(m)

\* _send_messages, lines 181-183: what is written for one message
Frame(m) == Pack(Len(MessageData(m))) \o MessageData(m)

\* what the network may do to an encrypted frame on its way
Tampers == {"none", "ciphertext", "tag"}

\* the bytes a changed ciphertext decrypts to
Garbled == <<[t |-> "byte", v |-> "garbled"]>>

\* the frame as it arrives: element 6 is the ciphertext, element 7 the HMAC
Arriving(frame, tamper) ==
    IF tamper = "ciphertext" THEN [frame EXCEPT ![6].data = Garbled]
    ELSE IF tamper = "tag" THEN [frame EXCEPT ![7].key = 0]
    ELSE frame

RxResult(outcome, sent, message, drops) ==
    [outcome |-> outcome, sent |-> sent, message |-> message, drops |-> drops]

NoSent == [message |-> NoMessage, tamper |-> "none"]

\* one iteration of the sending loop of a peer holding the same key
\* (lines 166-184), and the frame's way through the network
SendFrame(message_type, encrypted, tamper) ==
    /\ frames_made < MaxFrames
    /\ ~reader_eof
    /\ tamper # "none" => encrypted
    /\ LET m == HiveMessage(MessageIds[frames_made + 1], frames_made + 1,
                            "node_a", message_type, PayloadOf(message_type),
                            PriorityOf(message_type), encrypted)
       IN  /\ reader' = reader \o Arriving(Frame(m), tamper)
           /\ in_flight' = Append(in_flight, [message |-> m, tamper |-> tamper])
    /\ frames_made' = frames_made + 1
    /\ UNCHANGED <<reader_eof, receiving, rx_connected, message_queue,
                   messages_received, handled, rx_last>>
    /\ UNCHANGED <<protoVars, sysVars, secVars, pqVars, consVars, fbVars, procVars, hbVars, nodeVars>>

\* the remote host closes the stream
RemoteClose ==
    /\ ~reader_eof
    /\ reader_eof' = TRUE
    /\ UNCHANGED <<reader, receiving, rx_connected, message_queue,
                   messages_received, handled, frames_made, in_flight, rx_last>>
    /\ UNCHANGED <<protoVars, sysVars, secVars, pqVars, consVars, fbVars, procVars, hbVars, nodeVars>>

\* the number of bytes of its last frame a closing host still wrote: within
\* the length prefix, or within the body
CutPoints == {2, 6}

\* the remote host closes the stream in the middle of a frame: the reader
\* gets the first kept bytes of it, then end of file
RemoteCloseMidFrame(message_type, encrypted, kept) ==
    /\ frames_made < MaxFrames
    /\ ~reader_eof
    /\ LET m == HiveMessage(MessageIds[frames_made + 1], frames_made + 1,
                            "node_a", message_type, PayloadOf(message_type),
                            PriorityOf(message_type), encrypted)
       IN  /\ kept < Len(Frame(m))
           /\ reader' = reader \o SubSeq(Frame(m), 1, kept)
    /\ reader_eof' = TRUE
    /\ frames_made' = frames_made + 1
    /\ UNCHANGED <<receiving, rx_connected, message_queue, messages_received,
                   handled, in_flight, rx_last>>
    /\ UNCHANGED <<protoVars, sysVars, secVars, pqVars, consVars, fbVars, procVars, hbVars, nodeVars>>

\* disconnect(), line 449
RxDisconnect ==
    /\ rx_connected
    /\ rx_connected' = FALSE
    /\ UNCHANGED <<reader, reader_eof, receiving, message_queue,
                   messages_received, handled, frames_made, in_flight, rx_last>>
    /\ UNCHANGED <<protoVars, sysVars, secVars, pqVars, consVars, fbVars, procVars, hbVars, nodeVars>>

\* _receive_messages, line 131: while self.is_connected
RxWhile ==
    /\ receiving = "while"
    /\ receiving' = IF rx_connected THEN "read" ELSE "done"
    /\ UNCHANGED <<reader, reader_eof, rx_connected, message_queue,
                   messages_received, handled, frames_made, in_flight, rx_last>>
    /\ UNCHANGED <<protoVars, sysVars, secVars, pqVars, consVars, fbVars, procVars, hbVars, nodeVars>>

\* a whole frame is in the stream: its length and that many bytes
FrameAvailable ==
    /\ Len(reader) >= 4
    /\ Len(reader) >= 4 + Unpack(SubSeq(reader, 1, 4))

\* _receive_messages, lines 133-155 and 160-161: one frame read and processed
RxFrame ==
    /\ receiving = "read"
    /\ FrameAvailable
    /\ LET message_length == Unpack(SubSeq(reader, 1, 4))
           message_data == SubSeq(reader, 5, 4 + message_length)
           decrypted ==
               IF message_data[1] = EncryptedFlag
               THEN FernetDecrypt(encryption_key, Tail(message_data))
               ELSE [ok |-> TRUE, data |-> message_data]
           parsed == IF decrypted.ok THEN FromBytes(decrypted.data)
                     ELSE [ok |-> FALSE, message |-> NoMessage]
           sent == Head(in_flight)
       IN  /\ reader' = SubSeq(reader, 5 + message_length, Len(reader))
           /\ in_flight' = Tail(in_flight)
           /\ IF parsed.ok
              THEN /\ messages_received' = messages_received + 1
                   /\ message_queue' = Append(message_queue, parsed.message)
                   /\ handled' = Append(handled, parsed.message)
                   /\ rx_last' = RxResult("delivered", sent, parsed.message,
                                          rx_last.drops)
              ELSE /\ UNCHANGED <<messages_received, message_queue, handled>>
                   /\ rx_last' = RxResult("dropped", sent, NoMessage,
                                          IF sent.tamper = "none"
                                          THEN rx_last.drops
                                          ELSE rx_last.drops + 1)
    /\ receiving' = "while"
    /\ UNCHANGED <<reader_eof, rx_connected, frames_made>>
    /\ UNCHANGED <<protoVars, sysVars, secVars, pqVars, consVars, fbVars, procVars, hbVars, nodeVars>>

\* _receive_messages, lines 157-159: IncompleteReadError, break
RxIncomplete ==
    /\ receiving = "read"
    /\ reader_eof
    /\ ~FrameAvailable
    /\ receiving' = "done"
    /\ rx_last' = RxResult("closed", NoSent, NoMessage, rx_last.drops)
    /\ UNCHANGED <<reader, reader_eof, rx_connected, message_queue,
                   messages_received, handled, frames_made, in_flight>>
    /\ UNCHANGED <<protoVars, sysVars, secVars, pqVars, consVars, fbVars, procVars, hbVars, nodeVars>>

InitWire ==
    /\ reader = <<>>
    /\ reader_eof = FALSE
    /\ receiving = "while"
    /\ rx_connected = TRUE
    /\ message_queue = <<>>
    /\ messages_received = 0
    /\ handled = <<>>
    /\ frames_made = 0
    /\ in_flight = <<>>
    /\ rx_last = RxResult("none", NoSent, NoMessage, 0)

NextWire ==
    \/ \E message_type \in SentTypes, encrypted \in BOOLEAN, tamper \in Tampers :
          SendFrame(message_type, encrypted, tamper)
    \/ RemoteClose
    \/ \E message_type \in SentTypes, encrypted \in BOOLEAN, kept \in CutPoints :
          RemoteCloseMidFrame(message_type, encrypted, kept)
    \/ RxDisconnect
    \/ RxWhile
    \/ RxFrame
    \/ RxIncomplete

-----------------------------------------------------------------------------
(* hive_protocol.py: request_consensus, _handle_consensus_vote and         *)
(* _wait_for_consensus.                                                     *)
(*                                                                          *)
(* Time is counted in polling intervals (asyncio.sleep(0.1)).  The waiter  *)
(* suspends only in that sleep, so votes are handled while it sleeps or    *)
(* while no request is waiting.  A dict is the sequence of its (key,       *)
(* value) pairs in insertion order.  Votes are strings.                    *)

\* request_consensus calls made in one run
MaxRequests == 1

\* polling intervals one asyncio.sleep(0.1) may take
MaxSleep == 2

\* consensus_threshold, line 90, in hundredths
ConsensusThreshold == 66

Voters == {"n1", "n2", "n3"}
Options == {"yes", "no"}

\* the votes peers send: the options of the proposal and a value that is
\* none of them
PeerVotes == Options \cup {"maybe"}

\* the timeout argument, in polling intervals
Timeouts == {0, 2}

\* d[k] = v on a dict that always appends, whether k is present or not
DictSetAppends(d, k, v) == Append(d, <<k, v>>)

\* d[k] = v: the value of a key already present is replaced in place, a new
\* key is appended
DictSet(d, k, v) ==
    IF \E i \in 1..Len(d) : d[i][1] = k
    THEN [i \in 1..Len(d) |-> IF d[i][1] = k THEN <<k, v>> ELSE d[i]]
    ELSE Append(d, <<k, v>>)

\* lines 341-343: vote_counts[option], counted over votes.values()
VoteCount(votes, option) ==
    Cardinality({i \in 1..Len(votes) : votes[i][2] = option})

\* a threshold test against the number of all voters of the hive
ReachedOfAllVoters(count, total_votes) ==
    count * 100 >= ConsensusThreshold * Cardinality(Voters)

\* line 347: count / total_votes >= self.consensus_threshold
Reached(count, total_votes) ==
    count * 100 >= ConsensusThreshold * total_votes

\* lines 346-349: vote_counts.items() runs through the options in the order
\* of their first vote; the first one that reached the threshold is
\* returned.  0 when there is none or no vote.
FirstReached(votes) ==
    LET hits == {i \in 1..Len(votes) :
                    Reached(VoteCount(votes, votes[i][2]), Len(votes))}
    IN  IF hits = {} THEN 0
        ELSE CHOOSE i \in hits : \A j \in hits : i <= j

\* a del that leaves the request in place
DelRequestKept(requests, request_id) == requests

\* del self.consensus_requests[request_id]
DelRequest(requests, request_id) ==
    [r \in DOMAIN requests \ {request_id} |-> requests[r]]

\* a step of the consensus code: for a poll or return the votes polled and
\* the time elapsed, for a vote the voter and the votes held before it
ConsensusCall(op, request_id, voter, result, votes, elapsed, timeout) ==
    [op |-> op, request_id |-> request_id, voter |-> voter, result |-> result,
     votes |-> votes, elapsed |-> elapsed, timeout |-> timeout]

\* lines 334-355 from the head of the while loop to the next suspension or
\* the return, for the request request_id at time now
PollFrom(request_id, requests, now) ==
    LET request == requests[request_id]
        votes == request.votes
        elapsed == now - request.start_time
        hit == FirstReached(votes)
    IN  IF elapsed < request.timeout
        THEN IF hit # 0
             THEN /\ consensus_requests' = DelRequest(requests, request_id)
                  /\ consensus_pc' = "returned"
                  /\ consensus_last' =
                        ConsensusCall("returned", request_id, "", votes[hit][2],
                                      votes, elapsed, request.timeout)
             ELSE /\ consensus_requests' = requests
                  /\ consensus_pc' = "sleep"
                  /\ consensus_last' =
                        ConsensusCall("polled", request_id, "", None, votes,
                                      elapsed, request.timeout)
        ELSE /\ consensus_requests' = DelRequest(requests, request_id)
             /\ consensus_pc' = "returned"
             /\ consensus_last' =
                   ConsensusCall("returned", request_id, "", None, votes, elapsed,
                                 request.timeout)

\* request_consensus(proposal, options, timeout), lines 265-294, up to the
\* first sleep of _wait_for_consensus or its return
RequestConsensus(timeout) ==
    /\ consensus_pc # "sleep"
    /\ requests_made < MaxRequests
    /\ requests_made' = requests_made + 1
    /\ PollFrom(requests_made + 1,
                [r \in DOMAIN consensus_requests \cup {requests_made + 1} |->
                    IF r = requests_made + 1
                    THEN [votes |-> <<>>, start_time |-> consensus_clock,
                          timeout |-> timeout]
                    ELSE consensus_requests[r]],
                consensus_clock)
    /\ UNCHANGED consensus_clock
    /\ UNCHANGED <<protoVars, sysVars, secVars, pqVars, wireVars, fbVars, procVars, hbVars, nodeVars>>

\* _handle_consensus_vote, lines 319-327, for a CONSENSUS_VOTE message from
\* voter_id naming request_id
HandleConsensusVote(request_id, voter_id, vote) ==
    /\ consensus_requests' =
          IF request_id \in DOMAIN consensus_requests
          THEN [consensus_requests EXCEPT ![request_id].votes =
                   DictSet(@, voter_id, vote)]
          ELSE consensus_requests
    /\ consensus_last' =
          ConsensusCall("vote", request_id, voter_id, vote,
                        IF request_id \in DOMAIN consensus_requests
                        THEN consensus_requests[request_id].votes ELSE <<>>,
                        0, 0)
    /\ UNCHANGED <<consensus_pc, consensus_clock, requests_made>>
    /\ UNCHANGED <<protoVars, sysVars, secVars, pqVars, wireVars, fbVars, procVars, hbVars, nodeVars>>

\* asyncio.sleep(0.1) returns after slept intervals and the loop goes round
WakeAndPoll(slept) ==
    /\ consensus_pc = "sleep"
    /\ consensus_clock' = consensus_clock + slept
    /\ PollFrom(requests_made, consensus_requests, consensus_clock + slept)
    /\ UNCHANGED requests_made
    /\ UNCHANGED <<protoVars, sysVars, secVars, pqVars, wireVars, fbVars, procVars, hbVars, nodeVars>>

InitConsensus ==
    /\ consensus_requests = <<>>
    /\ consensus_pc = "idle"
    /\ consensus_clock = 0
    /\ requests_made = 0
    /\ consensus_last = ConsensusCall("none", 0, "", None, <<>>, 0, 0)

NextConsensus ==
    \/ \E timeout \in Timeouts : RequestConsensus(timeout)
    \/ \E request_id \in 1..MaxRequests, voter_id \in Voters, vote \in PeerVotes :
          HandleConsensusVote(request_id, voter_id, vote)
    \/ \E slept \in 1..MaxSleep : WakeAndPoll(slept)

-----------------------------------------------------------------------------
(* neural_link_system.py: _process_feedback and _feedback_processing_loop;  *)
(* neural_security.py: validate_feedback.                                   *)
(*                                                                          *)
(* A float is [kind, v]: kind "num" with v in hundredths, or "nan" (which   *)
(* json.loads accepts in a payload); every comparison with a nan is False.  *)
(* A key absent from feedback_data is of kind "missing".  Durations are     *)
(* whole milliseconds.                                                      *)

\* _process_feedback calls made in one run
MaxFeedback == 2

\* feedback handlers registered in one run
MaxHandlers == 2

Float(v) == [kind |-> "num", v |-> v]
NaN == [kind |-> "nan", v |-> 0]
Missing == [kind |-> "missing", v |-> 0]

\* a < b and a > b on floats
FloatLt(a, b) == a.kind = "num" /\ b.kind = "num" /\ a.v < b.v
FloatGt(a, b) == FloatLt(b, a)

\* dict.get(key, default)
GetOr(x, default) == IF x.kind = "missing" THEN default ELSE x

\* min(a, b): b when b < a, else a
PyMin(a, b) == IF FloatLt(b, a) THEN b ELSE a

\* NeuralLinkConfig: enable_feedback (line 40), feedback_intensity_limit
\* (line 41, default 0.5)
FeedbackConfigs ==
    [enable_feedback : BOOLEAN, feedback_intensity_limit : {Float(50), Float(80)}]

NoConfig == [enable_feedback |-> FALSE, feedback_intensity_limit |-> Missing]

\* the payloads of the FEEDBACK messages handled
FeedbackTypes == {"visual", "thermal", "missing"}
FeedbackIntensities == {Missing, NaN, Float(-10), Float(30), Float(70), Float(120)}
FeedbackFrequencies == {Missing, Float(20)}
FeedbackDurations == {Missing, Float(6000)}

FeedbackData ==
    [type : FeedbackTypes, intensity : FeedbackIntensities,
     frequency : FeedbackFrequencies, duration : FeedbackDurations]

\* validate_feedback, lines 315-347 (_check_feedback_policies returns True)
ValidateFeedback(feedback_data) ==
    LET intensity == GetOr(feedback_data.intensity, Float(0))
        frequency == GetOr(feedback_data.frequency, Float(0))
        duration == GetOr(feedback_data.duration, Float(0))
    IN  /\ feedback_data.type \in {"visual", "auditory", "haptic"}
        /\ ~(FloatLt(intensity, Float(0)) \/ FloatGt(intensity, Float(100)))
        /\ ~(/\ FloatGt(frequency, Float(0))
             /\ (FloatLt(frequency, Float(50)) \/ FloatGt(frequency, Float(10000))))
        /\ ~(FloatGt(duration, Float(0)) /\ FloatGt(duration, Float(5000)))

\* a queued intensity taken from the payload as it came
QueuedIntensityUnclamped(feedback_data, limit) ==
    GetOr(feedback_data.intensity, Float(0))

\* _process_feedback, lines 348-349
QueuedIntensity(feedback_data, limit) ==
    PyMin(GetOr(feedback_data.intensity, Float(0)), limit)

FeedbackItem(type, intensity, timestamp) ==
    [type |-> type, intensity |-> intensity, timestamp |-> timestamp]

FeedbackCall(op, data, item) == [op |-> op, data |-> data, item |-> item]

NoFeedbackData ==
    [type |-> "missing", intensity |-> Missing, frequency |-> Missing,
     duration |-> Missing]

NoFeedbackItem == FeedbackItem("missing", Missing, 0)

\* NeuralLinkSystem(user_id, config) and initialize(), lines 84-88 and
\* 140-145: the feedback loop is created and the session made active
FeedbackInitialize(config) ==
    /\ feedback_pc = "none"
    /\ feedback_config' = config
    /\ feedback_active' = TRUE
    /\ feedback_pc' = "loop"
    /\ UNCHANGED <<feedback_handlers, feedback_queue, commands_received,
                   feedback_calls, feedback_taken, feedback_delivered,
                   feedback_last>>
    /\ UNCHANGED <<protoVars, sysVars, secVars, pqVars, wireVars, consVars, procVars, hbVars, nodeVars>>

\* register_feedback_handler, lines 461-463
RegisterFeedbackHandler ==
    /\ feedback_handlers < MaxHandlers
    /\ feedback_handlers' = feedback_handlers + 1
    /\ UNCHANGED <<feedback_config, feedback_active, feedback_pc,
                   feedback_queue, commands_received, feedback_calls,
                   feedback_taken, feedback_delivered, feedback_last>>
    /\ UNCHANGED <<protoVars, sysVars, secVars, pqVars, wireVars, consVars, procVars, hbVars, nodeVars>>

\* handle_feedback (lines 100-102) and _process_feedback (lines 342-363) for
\* the payload of a FEEDBACK message; the timestamp is the call's number
ProcessFeedback(feedback_data) ==
    /\ feedback_pc # "none"
    /\ feedback_calls < MaxFeedback
    /\ feedback_calls' = feedback_calls + 1
    /\ IF feedback_config.enable_feedback /\ ValidateFeedback(feedback_data)
       THEN LET item == FeedbackItem(feedback_data.type,
                                     QueuedIntensity(feedback_data,
                                         feedback_config.feedback_intensity_limit),
                                     feedback_calls + 1)
            IN  /\ feedback_queue' = Append(feedback_queue, item)
                /\ commands_received' = commands_received + 1
                /\ feedback_last' = FeedbackCall("queued", feedback_data, item)
       ELSE /\ UNCHANGED <<feedback_queue, commands_received>>
            /\ feedback_last' =
                  FeedbackCall("rejected", feedback_data, NoFeedbackItem)
    /\ UNCHANGED <<feedback_config, feedback_active, feedback_pc,
                   feedback_handlers, feedback_taken, feedback_delivered>>
    /\ UNCHANGED <<protoVars, sysVars, secVars, pqVars, wireVars, consVars, procVars, hbVars, nodeVars>>

\* the handlers called for one item: 1..n in registration order, stopping
\* after the handler that raises (raises_at, 0 when none raises)
HandlersCalled(n, raises_at) ==
    IF raises_at = 0 THEN n ELSE raises_at

\* the calls handler(feedback) made for item, in order
DeliveryCalls(item, called) ==
    [h \in 1..called |-> [handler |-> h, timestamp |-> item.timestamp]]

\* _feedback_processing_loop, lines 367-381: one round of the loop; with an
\* empty queue wait_for times out and the loop goes round
FeedbackLoopStep(raises_at) ==
    /\ feedback_pc = "loop"
    /\ raises_at <= feedback_handlers
    /\ IF ~feedback_active
       THEN /\ feedback_pc' = "done"
            /\ UNCHANGED <<feedback_queue, feedback_taken, feedback_delivered>>
       ELSE /\ feedback_queue # <<>>
            /\ feedback_queue' = Tail(feedback_queue)
            /\ feedback_taken' =
                  Append(feedback_taken,
                         [timestamp |-> Head(feedback_queue).timestamp,
                          handlers |-> feedback_handlers])
            /\ feedback_delivered' =
                  feedback_delivered
                  \o DeliveryCalls(Head(feedback_queue),
                                   HandlersCalled(feedback_handlers, raises_at))
            /\ UNCHANGED feedback_pc
    /\ UNCHANGED <<feedback_config, feedback_active, feedback_handlers,
                   commands_received, feedback_calls, feedback_last>>
    /\ UNCHANGED <<protoVars, sysVars, secVars, pqVars, wireVars, consVars, procVars, hbVars, nodeVars>>

\* end_session, line 498: self.is_active = False
FeedbackEndSession ==
    /\ feedback_active
    /\ feedback_active' = FALSE
    /\ UNCHANGED <<feedback_config, feedback_pc, feedback_handlers,
                   feedback_queue, commands_received, feedback_calls,
                   feedback_taken, feedback_delivered, feedback_last>>
    /\ UNCHANGED <<protoVars, sysVars, secVars, pqVars, wireVars, consVars, procVars, hbVars, nodeVars>>

InitFeedback ==
    /\ feedback_config = NoConfig
    /\ feedback_active = FALSE
    /\ feedback_pc = "none"
    /\ feedback_handlers = 0
    /\ feedback_queue = <<>>
    /\ commands_received = 0
    /\ feedback_calls = 0
    /\ feedback_taken = <<>>
    /\ feedback_delivered = <<>>
    /\ feedback_last = FeedbackCall("none", NoFeedbackData, NoFeedbackItem)

NextFeedback ==
    \/ \E config \in FeedbackConfigs : FeedbackInitialize(config)
    \/ RegisterFeedbackHandler
    \/ \E feedback_data \in FeedbackData : ProcessFeedback(feedback_data)
    \/ \E raises_at \in 0..MaxHandlers : FeedbackLoopStep(raises_at)
    \/ FeedbackEndSession

-----------------------------------------------------------------------------
(* The two processing loops: process_loop of the prototype                  *)
(* (architecture_prototype.py) with HiveCommunicationInterface, and         *)
(* _neural_processing_loop with _handle_neural_results                      *)
(* (neural_link_system.py) behind validate_neural_data                      *)
(* (neural_security.py).                                                    *)
(*                                                                          *)
(* A chunk of neural data is the record of what validate_neural_data        *)
(* computes from it: largest absolute amplitude, whether a channel has no   *)
(* variance, mean over standard deviation in hundredths, and whether        *)
(* _detect_adversarial_patterns finds a pattern.  The features of a result  *)
(* are "scalars" or "arrays": json.dumps, line 145 of neural_security.py,   *)
(* raises TypeError on a numpy array.                                       *)

\* signals process_loop takes in one run
MaxSignals == 2

\* chunks _neural_processing_loop takes in one run
MaxChunks == 2

\* _validate_statistics, line 259
AmplitudeCeiling == 200

Chunks ==
    [max_abs : {100, 50 * AmplitudeCeiling}, dead_channel : BOOLEAN,
     snr : {5, 50}, adversarial : BOOLEAN]

NoChunk == [max_abs |-> 0, dead_channel |-> FALSE, snr |-> 0, adversarial |-> FALSE]

\* a statistics check without the amplitude test
ValidateStatisticsNoAmplitude(chunk) ==
    /\ ~chunk.dead_channel
    /\ ~(chunk.snr < 10 \/ chunk.snr > 10000)

\* _validate_statistics, lines 256-271
ValidateStatistics(chunk) ==
    /\ ~(chunk.max_abs > AmplitudeCeiling)
    /\ ~chunk.dead_channel
    /\ ~(chunk.snr < 10 \/ chunk.snr > 10000)

\* validate_neural_data, lines 229-254; _validate_neural_signature compares
\* the constant similarity 0.9 with the threshold 0.85 and so never rejects
ValidateNeuralData(chunk) ==
    /\ ValidateStatistics(chunk)
    /\ ~chunk.adversarial

\* what get_results returns after an accepted chunk: nothing within the
\* timeout, a result without pattern, or a result with one
ResultKinds == {"none", "no_pattern", "pattern"}
FeatureKinds == {"scalars", "arrays"}

\* encrypt_neural_data, lines 130-183: raises when json.dumps does
EncryptRaises(features) == features = "arrays"

ProcStep(loop, power, chunk, safe, reason, put, failed) ==
    [loop |-> loop, power |-> power, chunk |-> chunk, safe |-> safe,
     reason |-> reason, put |-> put, failed |-> failed]

\* process_loop, lines 431-469: one round with a signal of the given power,
\* from get_latest_signal to the sleep at its end.  send_command puts the
\* message on message_queue when connected; receive_feedback then takes the
\* first message of that queue.
ProcessLoopStep(power) ==
    /\ monitor_pc = "idle"
    /\ is_running
    /\ signals_seen < MaxSignals
    /\ signals_seen' = signals_seen + 1
    /\ LET v == SignalVerdict(power) IN
         /\ IF v[3] THEN TriggerAlertEffect
                    ELSE UNCHANGED <<status, shutdown_tasks>>
         /\ last_call' = Call("check_signal_safety", v[1], v[2])
         /\ IF v[1] /\ proto_connected
            THEN /\ commands_put' = commands_put + 1
                 /\ hive_message_queue' =
                       Tail(Append(hive_message_queue, signals_seen + 1))
            ELSE UNCHANGED <<commands_put, hive_message_queue>>
         /\ proc_last' = ProcStep("process_loop", power, NoChunk, v[1], v[2],
                                  v[1] /\ proto_connected, FALSE)
    /\ UNCHANGED <<alert_callbacks, monitor_pc, is_running, proto_connected,
                   stop_called>>
    /\ UNCHANGED <<neural_pc, neural_active, chunks_seen, neural_outgoing,
                   patterns_recognized, commands_sent, neural_errors>>
    /\ UNCHANGED <<sysVars, secVars, pqVars, wireVars, consVars, fbVars, hbVars, nodeVars>>

\* NeuralLinkSystem.initialize and start_session: the session is active and
\* the processing loop is created
NeuralStart ==
    /\ neural_pc = "none"
    /\ neural_pc' = "loop"
    /\ neural_active' = TRUE
    /\ UNCHANGED <<signals_seen, commands_put, hive_message_queue, chunks_seen,
                   neural_outgoing, patterns_recognized, commands_sent,
                   neural_errors, proc_last>>
    /\ UNCHANGED <<protoVars, sysVars, secVars, pqVars, wireVars, consVars, fbVars, hbVars, nodeVars>>

\* end_session or emergency_shutdown: the loop condition of line 205 fails
NeuralStop ==
    /\ neural_active
    /\ neural_active' = FALSE
    /\ UNCHANGED <<neural_pc, signals_seen, commands_put, hive_message_queue,
                   chunks_seen, neural_outgoing, patterns_recognized,
                   commands_sent, neural_errors, proc_last>>
    /\ UNCHANGED <<protoVars, sysVars, secVars, pqVars, wireVars, consVars, fbVars, hbVars, nodeVars>>

\* _neural_processing_loop, lines 205-227, with _handle_neural_results,
\* lines 229-253: one round for a chunk, the result get_results returns for
\* it and the features of that result
NeuralProcessingStep(chunk, result, features) ==
    /\ neural_pc = "loop"
    /\ IF ~neural_active
       THEN /\ neural_pc' = "done"
            /\ UNCHANGED <<chunks_seen, neural_outgoing, patterns_recognized,
                           commands_sent, neural_errors, proc_last>>
       ELSE /\ chunks_seen < MaxChunks
            /\ chunks_seen' = chunks_seen + 1
            /\ UNCHANGED neural_pc
            /\ LET valid == ValidateNeuralData(chunk)
                   with_pattern == valid /\ result = "pattern"
                   failed == with_pattern /\ EncryptRaises(features)
               IN  /\ patterns_recognized' =
                         IF with_pattern THEN patterns_recognized + 1
                         ELSE patterns_recognized
                   /\ neural_outgoing' =
                         IF with_pattern /\ ~failed
                         THEN SendNeuralData(neural_outgoing)
                         ELSE neural_outgoing
                   /\ commands_sent' =
                         IF with_pattern /\ ~failed THEN commands_sent + 1
                         ELSE commands_sent
                   /\ neural_errors' =
                         IF failed THEN neural_errors + 1 ELSE neural_errors
                   /\ proc_last' =
                         ProcStep("neural", 0, chunk, valid,
                                  IF valid THEN result ELSE "rejected",
                                  with_pattern /\ ~failed, failed)
    /\ UNCHANGED <<neural_active, signals_seen, commands_put, hive_message_queue>>
    /\ UNCHANGED <<protoVars, sysVars, secVars, pqVars, wireVars, consVars, fbVars, hbVars, nodeVars>>

InitProcessing ==
    /\ signals_seen = 0
    /\ commands_put = 0
    /\ hive_message_queue = <<>>
    /\ neural_pc = "none"
    /\ neural_active = FALSE
    /\ chunks_seen = 0
    /\ neural_outgoing = <<>>
    /\ patterns_recognized = 0
    /\ commands_sent = 0
    /\ neural_errors = 0
    /\ proc_last = ProcStep("none", 0, NoChunk, TRUE, "none", FALSE, FALSE)

NextProcessing ==
    \/ ProtoInitialize
    \/ \E src \in ShutdownSources : ProtoShutdown(src)
    \/ \E p \in Powers : ProcessLoopStep(p)
    \/ NeuralStart
    \/ NeuralStop
    \/ \E chunk \in Chunks, result \in ResultKinds, features \in FeatureKinds :
          NeuralProcessingStep(chunk, result, features)

-----------------------------------------------------------------------------
(* hive_protocol.py: _heartbeat_loop and _handle_message for a HEARTBEAT    *)
(* message of the peer.                                                     *)
(*                                                                          *)
(* Time is counted in heartbeat intervals, the asyncio.sleep(5) of line     *)
(* 217.  The loop suspends only in that sleep; after it the heartbeat is    *)
(* built and queued before is_connected is read again.  No handler is       *)
(* registered for HEARTBEAT anywhere in the repository.                     *)

\* heartbeat intervals that elapse in one run
MaxIntervals == 5

\* HEARTBEAT messages of the peer handled in one run
MaxHeard == 3

\* one interval elapses; _heartbeat_loop, lines 216-227, if it is still
\* running, wakes from its sleep, queues a heartbeat and reads is_connected
HeartbeatInterval ==
    /\ intervals_elapsed < MaxIntervals
    /\ intervals_elapsed' = intervals_elapsed + 1
    /\ intervals_silent' = intervals_silent + 1
    /\ IF heartbeat_pc = "sleep"
       THEN /\ heartbeats_put' = heartbeats_put + 1
            /\ heartbeat_pc' = IF rx_connected THEN "sleep" ELSE "done"
       ELSE UNCHANGED <<heartbeats_put, heartbeat_pc>>
    /\ UNCHANGED heartbeats_handled
    /\ UNCHANGED <<protoVars, sysVars, secVars, pqVars, wireVars, consVars, fbVars, procVars, nodeVars>>

\* _handle_message, lines 193-212, for a HEARTBEAT message the receive loop
\* read: no handler is registered and none of the protocol-specific
\* branches is taken
HandleHeartbeat ==
    /\ rx_connected
    /\ receiving # "done"
    /\ heartbeats_handled < MaxHeard
    /\ heartbeats_handled' = heartbeats_handled + 1
    /\ intervals_silent' = 0
    /\ UNCHANGED <<heartbeat_pc, heartbeats_put, intervals_elapsed>>
    /\ UNCHANGED <<protoVars, sysVars, secVars, pqVars, wireVars, consVars, fbVars, procVars, nodeVars>>

\* after connect_to_hive, lines 111-118, and the first run of the task
InitHeartbeat ==
    /\ heartbeat_pc = "sleep"
    /\ heartbeats_put = 0
    /\ heartbeats_handled = 0
    /\ intervals_elapsed = 0
    /\ intervals_silent = 0

NextHeartbeat ==
    \/ HeartbeatInterval
    \/ HandleHeartbeat
    \/ RxDisconnect

-----------------------------------------------------------------------------
(* hive_protocol.py: the operations that queue a message (send_neural_data, *)
(* send_command, share_memory, send_emergency, send_sync_request) and       *)
(* _handle_message for a CONSENSUS_REQUEST, with the handler that           *)
(* NeuralLinkSystem._setup_message_handlers registers for it.               *)
(*                                                                          *)
(* A dict is the sequence of its (key, value) pairs.  A number is a record  *)
(* [t, v]: t says float or ndarray, v holds the values in units of 1e-5.    *)
(* The timestamp of a message is the number of the call that made it.       *)

\* calls made on the node in one run
MaxNodeCalls == 3

\* HiveProtocol(node_id)
NodeId == "neural_user"

FloatValue(v) == [t |-> "float", v |-> <<v>>]
Ndarray(v) == [t |-> "ndarray", v |-> v]

\* np.round(value, 4).tolist(), for values that are not at a half
RoundedList(value) ==
    [t |-> "list", v |-> [i \in 1..Len(value.v) |-> ((value.v[i] + 5) \div 10) * 10]]

\* dict.get(key, default)
DictGet(d, key, default) ==
    IF \E i \in 1..Len(d) : d[i][1] = key
    THEN d[CHOOSE i \in 1..Len(d) : d[i][1] = key][2]
    ELSE default

\* _compress_features, lines 434-445
CompressFeatures(features) ==
    [i \in 1..Len(features) |->
        IF features[i][2].t = "ndarray"
        THEN <<features[i][1], RoundedList(features[i][2])>>
        ELSE features[i]]

\* the arguments the callers pass
NodeFeatures ==
    { << <<"test_feature", FloatValue(50000)>> >>,
      << <<"alpha_power", Ndarray(<<123456, 20000>>)>>,
         <<"confidence", FloatValue(85000)>> >> }
NodePatterns == {"test_pattern", None}
NodeCommands == {"session_start", "session_end"}
MemoryValues == {"v1", "v2"}
SubscriberLists == {<<>>, <<"n2">>}
OptionLists == {<<>>, <<"yes", "no">>, <<"no", "yes">>}
AttentionLevels == {0, 29, 30, 80}

\* a message type for every operation, the same one
NodeMessageTypeAlwaysCommand(op) == "COMMAND"

\* the MessageType each operation gives its message
NodeMessageType(op) ==
    IF op = "send_neural_data" THEN "NEURAL_DATA"
    ELSE IF op = "send_command" THEN "COMMAND"
    ELSE IF op = "share_memory" THEN "MEMORY_SHARE"
    ELSE IF op = "send_emergency" THEN "EMERGENCY"
    ELSE IF op = "send_sync_request" THEN "SYNC"
    ELSE "CONSENSUS_VOTE"

NodeCall(op, args, queued) == [op |-> op, args |-> args, queued |-> queued]

\* the message an operation builds and send_message (lines 405-407) puts on
\* the queue; encrypted keeps the dataclass default
NodeSend(op, payload, priority, args) ==
    /\ node_calls < MaxNodeCalls
    /\ node_calls' = node_calls + 1
    /\ node_outgoing' =
          Append(node_outgoing,
                 HiveMessage(MessageIds[node_calls + 1], node_calls + 1, NodeId,
                             NodeMessageType(op), payload, priority, TRUE))
    /\ node_last' = NodeCall(op, args, 1)

\* send_neural_data(neural_features, decoded_pattern), lines 229-247
NodeSendNeuralData(neural_features, decoded_pattern) ==
    /\ NodeSend("send_neural_data",
                << <<"features", CompressFeatures(neural_features)>>,
                   <<"pattern", decoded_pattern>>,
                   <<"confidence",
                     DictGet(neural_features, "confidence", FloatValue(0))>> >>,
                1, <<neural_features, decoded_pattern>>)
    /\ UNCHANGED <<shared_memory, memory_subscribers, attention_level, consensus_participations>>
    /\ UNCHANGED <<protoVars, sysVars, secVars, pqVars, wireVars, consVars, fbVars, procVars, hbVars>>

\* send_command(command), lines 249-263; parameters or {}
NodeSendCommand(command) ==
    /\ NodeSend("send_command",
                << <<"command", command>>, <<"parameters", <<>> >> >>,
                2, <<command>>)
    /\ UNCHANGED <<shared_memory, memory_subscribers, attention_level, consensus_participations>>
    /\ UNCHANGED <<protoVars, sysVars, secVars, pqVars, wireVars, consVars, fbVars, procVars, hbVars>>

\* share_memory(key, value, subscribers), lines 357-376, for the key "state"
NodeShareMemory(value, subscribers) ==
    /\ shared_memory' = value
    /\ memory_subscribers' =
          IF subscribers # <<>> THEN subscribers ELSE memory_subscribers
    /\ NodeSend("share_memory",
                << <<"key", "state">>, <<"value", value>>,
                   <<"subscribers", subscribers>> >>,
                0, <<"state", value, subscribers>>)
    /\ UNCHANGED <<attention_level, consensus_participations>>
    /\ UNCHANGED <<protoVars, sysVars, secVars, pqVars, wireVars, consVars, fbVars, procVars, hbVars>>

\* send_emergency(emergency_type, details), lines 389-403
NodeSendEmergency(emergency_type) ==
    /\ NodeSend("send_emergency",
                << <<"emergency_type", emergency_type>>,
                   <<"details", "stress">> >>,
                10, <<emergency_type>>)
    /\ UNCHANGED <<shared_memory, memory_subscribers, attention_level, consensus_participations>>
    /\ UNCHANGED <<protoVars, sysVars, secVars, pqVars, wireVars, consVars, fbVars, procVars, hbVars>>

\* send_sync_request(), lines 409-424
NodeSendSyncRequest ==
    /\ NodeSend("send_sync_request",
                << <<"node_info",
                     << <<"capabilities",
                          <<"neural_processing", "consensus_voting">> >>,
                        <<"version", "1.0.0">> >> >> >>,
                0, <<>>)
    /\ UNCHANGED <<shared_memory, memory_subscribers, attention_level, consensus_participations>>
    /\ UNCHANGED <<protoVars, sysVars, secVars, pqVars, wireVars, consVars, fbVars, procVars, hbVars>>

\* _update_cognitive_state, line 261: attention_level, in hundredths
SetAttentionLevel(level) ==
    /\ level # attention_level
    /\ attention_level' = level
    /\ UNCHANGED <<node_outgoing, node_calls, shared_memory,
                   memory_subscribers, consensus_participations, node_last>>
    /\ UNCHANGED <<protoVars, sysVars, secVars, pqVars, wireVars, consVars, fbVars, procVars, hbVars>>

\* _participate_in_consensus with _generate_consensus_vote, lines 383-403:
\* whether the request is counted as a participation
Participates(options) == ~(attention_level < 30) /\ options # <<>>

\* _handle_message, lines 193-212, for a CONSENSUS_REQUEST with the given
\* options: the registered handler (_participate_in_consensus), then
\* _handle_consensus_request, lines 296-317, which votes for options[0] and
\* raises IndexError on an empty list
HandleConsensusRequest(request_id, options) ==
    /\ consensus_participations' =
          IF Participates(options) THEN consensus_participations + 1
          ELSE consensus_participations
    /\ IF options = <<>>
       THEN /\ node_calls < MaxNodeCalls
            /\ node_calls' = node_calls + 1
            /\ node_last' = NodeCall("consensus_request", <<request_id, options>>, 0)
            /\ UNCHANGED node_outgoing
       ELSE NodeSend("consensus_request",
                     << <<"request_id", request_id>>, <<"vote", options[1]>> >>,
                     0, <<request_id, options>>)
    /\ UNCHANGED <<shared_memory, memory_subscribers, attention_level>>
    /\ UNCHANGED <<protoVars, sysVars, secVars, pqVars, wireVars, consVars, fbVars, procVars, hbVars>>

\* HiveProtocol.__init__, lines 72-102, and the cognitive state and metrics
\* of NeuralLinkSystem.__init__
InitNode ==
    /\ node_outgoing = <<>>
    /\ node_calls = 0
    /\ shared_memory = None
    /\ memory_subscribers = <<>>
    /\ attention_level = 0
    /\ consensus_participations = 0
    /\ node_last = NodeCall("none", <<>>, 0)

NextNode ==
    \/ \E neural_features \in NodeFeatures, decoded_pattern \in NodePatterns :
          NodeSendNeuralData(neural_features, decoded_pattern)
    \/ \E command \in NodeCommands : NodeSendCommand(command)
    \/ \E value \in MemoryValues, subscribers \in SubscriberLists :
          NodeShareMemory(value, subscribers)
    \/ \E emergency_type \in {"neural_stress"} : NodeSendEmergency(emergency_type)
    \/ NodeSendSyncRequest
    \/ \E level \in AttentionLevels : SetAttentionLevel(level)
    \/ \E options \in OptionLists : HandleConsensusRequest("r1", options)

-----------------------------------------------------------------------------

Init ==
    InitProto /\ InitSys /\ InitSec /\ InitPq /\ InitWire /\ InitConsensus
    /\ InitFeedback /\ InitProcessing /\ InitHeartbeat
    /\ InitNode

\* the prototype's monitor and system on their own
SpecProto == Init /\ [][NextProto]_vars

\* the session orchestrator with its transport
Spec == Init /\ [][NextSys]_vars

\* the security layer on its own
SpecSec == Init /\ [][NextSec]_vars

\* the priority queue on its own
SpecPq == Init /\ [][NextPq]_vars

\* a send loop and a receive loop holding the same key, joined by a stream
SpecWire == Init /\ [][NextWire]_vars

\* one caller of request_consensus and the votes that arrive
SpecConsensus == Init /\ [][NextConsensus]_vars

\* the feedback path of the session orchestrator
SpecFeedback == Init /\ [][NextFeedback]_vars

\* the processing loops of the prototype and of the session orchestrator
SpecProcessing == Init /\ [][NextProcessing]_vars

\* the operations of a node that queue a message
SpecNode == Init /\ [][NextNode]_vars

\* the safety checks and the safety monitor loop
SpecSafety == Init /\ [][NextSafety]_vars

\* the heartbeat loop and the heartbeats of the peer
SpecHeartbeat == Init /\ [][NextHeartbeat]_vars

-----------------------------------------------------------------------------
(* C1: after emergency_stop() returns, status equals EMERGENCY_STOP,
   whatever the status before and whatever callbacks are registered. *)
C1_StatusIsEmergencyStopAfterCall ==
    (monitor_pc = "idle" /\ last_call.op = "emergency_stop")
        => status = "emergency_stop"

(* C2: status never moves backward in SAFE < WARNING < CRITICAL <
   EMERGENCY_STOP: every call, the nested _trigger_alert calls included,
   leaves status at or above the value it had before the call. *)
C2_StatusNeverMovesBackward ==
    [][Rank(status') >= Rank(status)]_vars

(* C3: once emergency_stop() has been called, every later
   check_signal_safety call returns is_safe = False. *)
C3_UnsafeAfterEmergencyStop ==
    (stop_called /\ last_call.op = "check_signal_safety") => ~last_call.is_safe

(* C4: when emergency_stop() is called while the prototype system is
   running, _handle_safety_alert schedules shutdown(): on return a shutdown
   task is pending (so that is_running becomes False). *)
C4_ShutdownScheduledOnEmergencyStop ==
    (monitor_pc = "idle" /\ last_call.op = "emergency_stop" /\ is_running)
        => shutdown_tasks > 0

-----------------------------------------------------------------------------
(* Claims about NeuralLinkSystem and its transport, checked under Spec *)

EmergencyShutdownMsg == Msg("EMERGENCY", "emergency_shutdown", 10)
InitializeReturns == {"initialize:True", "initialize:False"}

(* C5: on every emergency_shutdown of a connected system the EMERGENCY
   message is written to the peer connection by the send loop before
   disconnect() closes that connection: once the connection of such a
   shutdown is closed, the message has reached the peer. *)
C5_EmergencyWrittenBeforeClose ==
    (es_connected /\ writer_closed) => EmergencyShutdownMsg \in wire

(* C6: after emergency_shutdown completes, is_active is False and
   emergency_stop is True, whatever the state before the call. *)
C6_FlagsAfterEmergencyShutdown ==
    last_step.returned = "emergency_shutdown"
        => (~is_active /\ emergency_stop)

\* an emergency_shutdown of a connected system with a started session has
\* returned
C6_ShutdownOfRunningSessionReturned ==
    /\ last_step.returned = "emergency_shutdown"
    /\ es_connected
    /\ pc["neural"] # "none"

(* C7, as stated: whenever an EMERGENCY message from a peer is dispatched by
   the receive loop the system performs emergency_shutdown (emergency_stop
   True, is_active False), whatever emergency_type the payload carries. *)
C7_ShutdownOnAnyEmergency ==
    last_step.dispatched.type = "EMERGENCY"
        => (emergency_stop /\ ~is_active)

(* C7, amended: whenever an EMERGENCY message from a peer whose
   emergency_type is system_failure or safety_violation is dispatched by the
   receive loop, the system performs emergency_shutdown (emergency_stop
   True, is_active False). *)
C7_ShutdownOnFailureOrViolation ==
    (/\ last_step.dispatched.type = "EMERGENCY"
     /\ last_step.dispatched.info \in {"system_failure", "safety_violation"})
        => (emergency_stop /\ ~is_active)

\* a peer's safety_violation emergency has shut down an initialized system
C7_ViolationDispatchedAndShutDown ==
    /\ last_step.dispatched = Msg("EMERGENCY", "safety_violation", 10)
    /\ init_call.result
    /\ emergency_stop
    /\ ~is_active

(* C8: once emergency_stop is True the neural processing loop puts no
   further NEURAL_DATA message on the outgoing queue, in every interleaving
   of the loop with emergency_shutdown. *)
C8_NoNeuralDataAfterStop ==
    ~(last_step.put_neural /\ emergency_stop)

\* the loop sent data to the peer, and has left after an emergency stop
C8_LoopStoppedAfterSending ==
    /\ emergency_stop
    /\ pc["neural"] = "done"
    /\ Msg("NEURAL_DATA", "pattern", 1) \in wire

(* C9: initialize() returns False and leaves is_active False when
   connect_to_hive fails. *)
C9_InitializeFailsWithoutHive ==
    (last_step.returned \in InitializeReturns /\ init_call.connect = "failed")
        => (last_step.returned = "initialize:False" /\ ~is_active)

(* C10: on a freshly constructed system with a reachable hive and a security
   layer whose own initialize() would succeed, initialize() returns True
   and sets is_active True. *)
C10_FreshInitializeSucceeds ==
    (/\ last_step.returned \in InitializeReturns
     /\ init_call.fresh /\ init_call.hive_ok /\ init_call.sec_ok)
        => (last_step.returned = "initialize:True" /\ is_active)

-----------------------------------------------------------------------------
(* Claims about NeuralSecurityLayer, checked under SpecSec *)

(* C11: after any sequence of initialize, encrypt_neural_data (with the
   rotation it may trigger), decrypt_neural_data and _rotate_session_keys
   calls, session_keys holds at most 3 keys. *)
C11_RingHoldsAtMostThree ==
    Cardinality(DOMAIN session_keys) <= 3

\* a fourth key has been generated and the ring holds three
C11_RingFullAfterFourthRotation ==
    keys_made >= 4 /\ Cardinality(DOMAIN session_keys) = 3

(* C12: after n rotations the ring holds exactly the min(n, 3) most recently
   created session keys: a rotation that overflows the ring removes the key
   created earliest. *)
C12_RingHoldsMostRecentKeys ==
    {session_keys[k] : k \in DOMAIN session_keys}
        = {b \in 1..keys_made : b > keys_made - 3}

(* C13: decrypt_neural_data returns None whenever the signature does not
   verify (missing, or a signed field changed, or made under another master
   key), or key_id is not in session_keys, or authenticated decryption
   fails; otherwise it returns the plaintext that was encrypted. *)
C13_DecryptReturnsPlaintextOrNone ==
    sec_last.op = "decrypt" =>
        LET e == sec_last.entry
            intact == /\ sec_last.tamper = "none"
                      /\ e.master = master_key
                      /\ e.pkg.key_id \in DOMAIN session_keys
                      /\ session_keys[e.pkg.key_id] = e.key
        IN  sec_last.result = IF intact THEN e.plain ELSE None

\* a package made under a key that has since been rotated away from was
\* decrypted to its plaintext
C13_DecryptedUnderEarlierKey ==
    /\ sec_last.op = "decrypt"
    /\ sec_last.result \in Plaintexts
    /\ sec_last.entry.pkg.key_id # current_key_id

(* C14: every package encrypt_neural_data returns carries the key_id of the
   key its ciphertext was produced with, and that key is the ring's current
   key when the call returns, whether or not the call rotated. *)
C14_PackageNamesItsKey ==
    (sec_last.op = "encrypt" /\ sec_last.result = "package") =>
        LET p == sec_last.entry.pkg
        IN  /\ p.key_id = current_key_id
            /\ p.key_id \in DOMAIN session_keys
            /\ session_keys[p.key_id] = p.ciphertext.key

\* an encrypt after a rotation, while the caller still holds a package made
\* before it: the two name different keys
C14_EncryptedBeforeAndAfterRotation ==
    /\ sec_last.op = "encrypt"
    /\ sec_last.result = "package"
    /\ held # NoEntry
    /\ held.pkg.key_id # sec_last.entry.pkg.key_id

-----------------------------------------------------------------------------
(* Claims about PriorityQueue, checked under SpecPq *)

(* C21: request_consensus returns an option as soon as a poll within the
   timeout finds that the option's share of the votes cast so far is at
   least consensus_threshold: a poll that goes back to sleep found no such
   option, a return before the timeout names one, and a single vote "yes"
   gives "yes". *)
C21_ReturnsAtFirstPollThatReachesThreshold ==
    LET c == consensus_last
        reached(o) == /\ VoteCount(c.votes, o) > 0
                      /\ VoteCount(c.votes, o) * 100
                            >= ConsensusThreshold * Len(c.votes)
    IN  /\ c.op = "polled" => \A o \in PeerVotes : ~reached(o)
        /\ (c.op = "returned" /\ c.elapsed < c.timeout)
              => (c.result \in PeerVotes /\ reached(c.result))
        /\ (/\ c.op \in {"polled", "returned"}
            /\ c.elapsed < c.timeout
            /\ Len(c.votes) = 1
            /\ c.votes[1][2] = "yes")
              => (c.op = "returned" /\ c.result = "yes")

C21_SingleYesVoteDecides ==
    /\ consensus_last.op = "returned"
    /\ consensus_last.result = "yes"
    /\ Len(consensus_last.votes) = 1
    /\ consensus_last.elapsed < consensus_last.timeout
    /\ consensus_pc = "returned"

(* C22: a poll within the timeout that finds two votes for one option and
   one for the other does not return the option with two votes. *)
C22_TwoOfThreeDoesNotWin ==
    (/\ consensus_last.op \in {"polled", "returned"}
     /\ consensus_last.elapsed < consensus_last.timeout
     /\ Len(consensus_last.votes) = 3
     /\ VoteCount(consensus_last.votes, "yes") = 2
     /\ VoteCount(consensus_last.votes, "no") = 1)
    => (consensus_last.op = "polled" /\ consensus_last.result = None)

(* C23: a return at or after the timeout gives None, and once
   request_consensus has returned, with a decision or None, its request_id
   is no longer in consensus_requests. *)
C23_NoneAtTimeoutAndRequestRemoved ==
    /\ consensus_pc = "returned" => requests_made \notin DOMAIN consensus_requests
    /\ consensus_last.op = "returned"
          => /\ consensus_last.request_id \notin DOMAIN consensus_requests
             /\ consensus_last.elapsed >= consensus_last.timeout
                   => consensus_last.result = None
             /\ consensus_last.result # None
                   => consensus_last.elapsed < consensus_last.timeout

C23_TimedOutOnSplitVote ==
    /\ consensus_last.op = "returned"
    /\ consensus_last.result = None
    /\ consensus_last.timeout > 0
    /\ consensus_last.elapsed >= consensus_last.timeout
    /\ Len(consensus_last.votes) = 2
    /\ consensus_requests = <<>>

(* C24: the votes of a pending request hold at most one entry per voter; a
   vote from a voter already present replaces that voter's entry and leaves
   the others as they were, and the tally counts one vote per voter. *)
C24_OneVotePerVoterLatestCounts ==
    [][\A r \in DOMAIN consensus_requests' :
          LET after == consensus_requests'[r].votes
              c == consensus_last'
          IN  /\ \A i, j \in 1..Len(after) : after[i][1] = after[j][1] => i = j
              /\ VoteCount(after, "yes") + VoteCount(after, "no")
                 + VoteCount(after, "maybe")
                    = Cardinality({after[i][1] : i \in 1..Len(after)})
              /\ (/\ c.op = "vote"
                  /\ c.request_id = r
                  /\ r \in DOMAIN consensus_requests)
                    => LET before == consensus_requests[r].votes
                       IN  /\ \E i \in 1..Len(after) : after[i] = <<c.voter, c.result>>
                           /\ \A w \in Voters \ {c.voter}, o \in PeerVotes :
                                 (\E i \in 1..Len(before) : before[i] = <<w, o>>)
                                 <=> (\E i \in 1..Len(after) : after[i] = <<w, o>>)]_vars

C24_VoterChangedItsVote ==
    /\ consensus_last.op = "vote"
    /\ consensus_last.request_id \in DOMAIN consensus_requests
    /\ \E i \in 1..Len(consensus_last.votes) :
          /\ consensus_last.votes[i][1] = consensus_last.voter
          /\ consensus_last.votes[i][2] # consensus_last.result
    /\ LET votes == consensus_requests[consensus_last.request_id].votes
       IN  /\ Len(votes) = Len(consensus_last.votes)
           /\ \E i \in 1..Len(votes) :
                 votes[i] = <<consensus_last.voter, consensus_last.result>>

(* C25: every item on feedback_queue was made from a payload that passed
   validate_feedback while feedback was enabled and carries an intensity
   that is not greater than feedback_intensity_limit; a call with feedback
   disabled or a payload that fails validation queues nothing and leaves
   commands_received unchanged; nothing else adds to the queue. *)
C25_OnlyValidatedClampedFeedbackQueued ==
    [][/\ \A i \in 1..Len(feedback_queue') :
             ~FloatGt(feedback_queue'[i].intensity,
                      feedback_config'.feedback_intensity_limit)
       /\ Len(feedback_queue') > Len(feedback_queue)
             => feedback_calls' = feedback_calls + 1
       /\ feedback_calls' = feedback_calls + 1
             => IF /\ feedback_config.enable_feedback
                   /\ ValidateFeedback(feedback_last'.data)
                THEN /\ feedback_queue' =
                           Append(feedback_queue, feedback_last'.item)
                     /\ feedback_last'.item.type = feedback_last'.data.type
                     /\ commands_received' = commands_received + 1
                ELSE UNCHANGED <<feedback_queue, commands_received>>]_vars

C25_StrongFeedbackQueuedAtTheLimit ==
    /\ feedback_last.op = "queued"
    /\ feedback_last.data.intensity = Float(70)
    /\ feedback_config.feedback_intensity_limit = Float(50)
    /\ feedback_queue # <<>>
    /\ feedback_queue[Len(feedback_queue)].intensity = Float(50)
    /\ commands_received = 2

(* C26: every item the loop took from feedback_queue was passed exactly
   once to every handler registered then, the items in the order they
   arrived, and a loop that has ended has left no item on the queue. *)
C26_EveryItemToEveryHandlerOnce ==
    /\ \A k \in 1..Len(feedback_taken) :
          \A h \in 1..feedback_taken[k].handlers :
             Cardinality({i \in 1..Len(feedback_delivered) :
                             feedback_delivered[i] =
                                [handler |-> h,
                                 timestamp |-> feedback_taken[k].timestamp]}) = 1
    /\ \A i, j \in 1..Len(feedback_delivered) :
          i < j => feedback_delivered[i].timestamp <= feedback_delivered[j].timestamp
    /\ feedback_pc = "done" => feedback_queue = <<>>

(* C27: a signal that fails the safety check is not forwarded.  A round of
   process_loop whose signal check_signal_safety finds unsafe (with reason
   seizure_risk when the power is above seizure_threshold) puts no command
   on the hive message queue, and a round of _neural_processing_loop whose
   chunk validate_neural_data rejects (as it does an amplitude above the
   ceiling) puts no message on the outgoing queue. *)
C27_UnsafeSignalNotForwarded ==
    [][/\ signals_seen' = signals_seen + 1
          => /\ proc_last'.power > SeizureThreshold
                   => (~proc_last'.safe /\ proc_last'.reason = "seizure_risk")
             /\ ~proc_last'.safe
                   => /\ last_call'.is_safe = FALSE
                      /\ UNCHANGED <<commands_put, hive_message_queue>>
       /\ chunks_seen' = chunks_seen + 1
          => /\ proc_last'.chunk.max_abs > AmplitudeCeiling => ~proc_last'.safe
             /\ ~proc_last'.safe
                   => UNCHANGED <<neural_outgoing, patterns_recognized,
                                  commands_sent>>]_vars

C27_BothLoopsForwardedAndRefused ==
    /\ proc_last.loop = "neural"
    /\ ~proc_last.safe
    /\ proc_last.chunk.max_abs = 50 * AmplitudeCeiling
    /\ ~proc_last.chunk.dead_channel /\ ~proc_last.chunk.adversarial
    /\ proc_last.chunk.snr = 50
    /\ Len(neural_outgoing) = 1
    /\ commands_put = 1
    /\ signals_seen = 2
    /\ last_call = Call("check_signal_safety", FALSE, "seizure_risk")

(* C28: patterns_recognized and commands_sent are equal after every result
   that _handle_neural_results handled, also one whose encryption or send
   failed. *)
C28_RecognizedEqualsSent ==
    patterns_recognized = commands_sent

(* C29: when the connection is closed in the middle of a frame,
   readexactly raising IncompleteReadError on the length prefix or on the
   body, the receive loop ends and is_connected is False. *)
C29_MidFrameCloseDisconnects ==
    (rx_last.outcome = "closed" /\ reader # <<>>)
        => (receiving = "done" /\ ~rx_connected)

(* C30: when three consecutive heartbeat intervals have elapsed without a
   HEARTBEAT message of the peer arriving, the peer is taken to be
   disconnected: is_connected is False. *)
C30_ThreeSilentIntervalsDisconnect ==
    intervals_silent >= 3 => ~rx_connected

(* C31: when the safety monitor loop wakes in a session whose duration
   exceeds max_session_duration, end_session is called: after that step
   the session_end command is queued, is_active is False, the transport is
   disconnected and the loop is not in its sleep; and a monitor loop that
   has left its sleep never sleeps again. *)
C31_DurationCapEndsSession ==
    [][/\ (SafetyLoopWake(TRUE) /\ session_start_time)
          => /\ ~is_active' /\ ~is_connected'
             /\ connections # {} => writer_closed'
             /\ outgoing_queue' # <<>>
             /\ outgoing_queue'[Len(outgoing_queue')] = Msg("COMMAND", "session_end", 2)
             /\ pc'["safety"] \in {"end_session", "emergency_shutdown", "done"}
       /\ pc["safety"] \in {"end_session", "emergency_shutdown", "done"}
          => pc'["safety"] \in {"end_session", "emergency_shutdown", "done"}
       /\ pc["safety"] = "done" => pc'["safety"] = "done"]_vars

C31_SessionEndedByTheDurationCap ==
    /\ pc["safety"] = "done"
    /\ init_call.connect = "ok"
    /\ end_calls = 0
    /\ ~emergency_stop
    /\ safety_violations = <<>>
    /\ ~is_active /\ ~is_connected /\ connections = {} /\ writer_closed
    /\ pc["neural"] = "done"

(* C32: _perform_safety_checks returns True exactly when the integrity
   check holds, stress_level is not above emergency_threshold and
   error_count is not above 10 (a stress of 0.8 is safe, 0.95 is not);
   a call that returns False appends exactly one entry to
   safety_violations, that of the first condition that failed, and a call
   that returns True appends none.  No other step changes the list. *)
C32_SafetyChecksTrueExactlyWhenAllHold ==
    [][LET integrity == security_initialized
           calm == ~(stress_level > 90)
           few_errors == ~(error_count > 10)
           all_hold == integrity /\ calm /\ few_errors
           appended == /\ Len(safety_violations') = Len(safety_violations) + 1
                       /\ SubSeq(safety_violations', 1, Len(safety_violations))
                             = safety_violations
                       /\ safety_violations'[Len(safety_violations')] =
                             IF ~integrity THEN "integrity_check_failed"
                             ELSE IF ~calm THEN "high_stress_detected"
                             ELSE "excessive_errors"
       IN  /\ PerformSafetyChecksCall
              => /\ last_step'.returned = "safety_checks:True" <=> all_hold
                 /\ last_step'.returned = "safety_checks:False" <=> ~all_hold
                 /\ all_hold => UNCHANGED safety_violations
                 /\ ~all_hold => appended
                 /\ (integrity /\ few_errors /\ stress_level = 80)
                       => last_step'.returned = "safety_checks:True"
                 /\ stress_level = 95
                       => last_step'.returned = "safety_checks:False"
           /\ safety_violations' # safety_violations => (~all_hold /\ appended)
      ]_vars

C32_EachConditionFailedOnce ==
    /\ last_step.returned = "safety_checks:True"
    /\ stress_level = 80
    /\ error_count = 10
    /\ safety_violations = <<"integrity_check_failed", "high_stress_detected">>

(* C34 as stated: when the safety monitor loop wakes in an active system
   whose error_count exceeds 10, that pass records an excessive_errors
   violation, calls emergency_shutdown, and the loop stops. *)
C34_ExcessiveErrorsRecordedAndShutDown ==
    [][((SafetyLoopWake(TRUE) \/ SafetyLoopWake(FALSE))
           /\ is_active /\ error_count > 10)
          => /\ Len(safety_violations') = Len(safety_violations) + 1
             /\ safety_violations'[Len(safety_violations')] = "excessive_errors"
             /\ emergency_stop' /\ ~is_active'
             /\ pc'["safety"] \in {"emergency_shutdown", "done"}]_vars

(* C34 amended: the same for a system whose stress level is not above
   emergency_threshold; with the stress level above it the pass records
   high_stress_detected instead.  Either way emergency_shutdown is called
   and the loop, once out of its sleep, does not sleep again. *)
C34_ExcessiveErrorsRecordedUnlessStress ==
    [][/\ ((SafetyLoopWake(TRUE) \/ SafetyLoopWake(FALSE))
              /\ is_active /\ error_count > 10)
          => /\ Len(safety_violations') = Len(safety_violations) + 1
             /\ safety_violations'[Len(safety_violations')] =
                   IF stress_level > 90 THEN "high_stress_detected"
                   ELSE "excessive_errors"
             /\ emergency_stop' /\ ~is_active' /\ ~is_connected'
             /\ \E i \in 1..Len(outgoing_queue') :
                   outgoing_queue'[i] = Msg("EMERGENCY", "emergency_shutdown", 10)
             /\ pc'["safety"] \in {"emergency_shutdown", "done"}
       /\ pc["safety"] \in {"emergency_shutdown", "done"}
          => pc'["safety"] \in {"emergency_shutdown", "done"}]_vars

C34_ShutDownForExcessiveErrors ==
    /\ pc["safety"] = "done"
    /\ error_count = 11
    /\ safety_violations = <<"excessive_errors">>
    /\ emergency_stop /\ ~is_active /\ ~is_connected
    /\ init_call.connect = "ok"
    /\ connections = {}

(* C33: each call of send_neural_data, send_command, share_memory,
   send_emergency or send_sync_request puts exactly one message on
   outgoing_queue, behind those already there; its message type is that of
   the operation, its source_id the node's id, and its payload carries the
   caller's arguments (the pattern of send_neural_data, the command, the
   key, value and subscribers, the emergency type). *)
C33_EachSendQueuesOneMatchingMessage ==
    [][(node_calls' = node_calls + 1 /\ node_last'.op # "consensus_request")
          => LET op == node_last'.op
                 args == node_last'.args
                 m == node_outgoing'[Len(node_outgoing')]
             IN  /\ Len(node_outgoing') = Len(node_outgoing) + 1
                 /\ SubSeq(node_outgoing', 1, Len(node_outgoing)) = node_outgoing
                 /\ m.source_id = NodeId
                 /\ op = "send_neural_data"
                       => /\ m.message_type = "NEURAL_DATA"
                          /\ DictGet(m.payload, "pattern", "absent") = args[2]
                          /\ Len(DictGet(m.payload, "features", <<>>)) = Len(args[1])
                          /\ \A i \in 1..Len(args[1]) :
                                args[1][i][2].t = "float"
                                   => DictGet(m.payload, "features", <<>>)[i] = args[1][i]
                 /\ op = "send_command"
                       => /\ m.message_type = "COMMAND"
                          /\ DictGet(m.payload, "command", "absent") = args[1]
                 /\ op = "share_memory"
                       => /\ m.message_type = "MEMORY_SHARE"
                          /\ DictGet(m.payload, "key", "absent") = args[1]
                          /\ DictGet(m.payload, "value", "absent") = args[2]
                          /\ DictGet(m.payload, "subscribers", <<"absent">>) = args[3]
                 /\ op = "send_emergency"
                       => /\ m.message_type = "EMERGENCY"
                          /\ DictGet(m.payload, "emergency_type", "absent") = args[1]
                 /\ op = "send_sync_request" => m.message_type = "SYNC"]_vars

C33_PatternCommandAndEmergencyQueued ==
    /\ Len(node_outgoing) = 3
    /\ node_outgoing[1].message_type = "NEURAL_DATA"
    /\ DictGet(node_outgoing[1].payload, "pattern", "absent") = "test_pattern"
    /\ node_outgoing[2].message_type = "COMMAND"
    /\ DictGet(node_outgoing[2].payload, "command", "absent") = "session_end"
    /\ node_outgoing[3].message_type = "EMERGENCY"
    /\ node_last.op = "send_emergency"

(* C35: a node whose attention_level is below 0.3 abstains: handling a
   CONSENSUS_REQUEST puts no CONSENSUS_VOTE on its outgoing queue and
   leaves consensus_participations as it was. *)
C35_LowAttentionAbstains ==
    [][(node_calls' = node_calls + 1 /\ node_last'.op = "consensus_request"
           /\ attention_level < 30)
          => UNCHANGED <<node_outgoing, consensus_participations>>]_vars

(* C36: after every rotation current_key_id is a key of session_keys: the
   key just generated is never the one removed from the ring. *)
C36_CurrentKeyIsInTheRing ==
    current_key_id # 0 => current_key_id \in DOMAIN session_keys

(* C37: size(), which returns packet_count, equals the number of packets
   held in the four lanes, after any enqueue and dequeue calls. *)
C37_SizeIsTheNumberOfPacketsHeld ==
    packet_count = Len(queues["critical"]) + Len(queues["high"])
                   + Len(queues["normal"]) + Len(queues["low"])

(* C38: whenever request_consensus returns a value other than None, that
   value is one of the options of the proposal, whatever votes the peers
   send. *)
C38_ResultIsOneOfTheOptions ==
    (consensus_last.op = "returned" /\ consensus_last.result # None)
        => consensus_last.result \in Options

(* C39: in every interleaving of the send loop with disconnect(), the send
   loop writes nothing to a connection after disconnect() has closed it:
   whenever the loop takes a message from the queue and writes it to the
   connections it holds, none of their writers is closed. *)
C39_NoWriteToAClosedWriter ==
    [][((SendLoopHead \/ SendLoopGet)
           /\ outgoing_queue' # outgoing_queue
           /\ connections # {})
          => ~writer_closed]_vars

(* C40: at most one session_end command is queued per session: once the
   session that initialize() began has been ended, no later step (the
   duration cap or a failed check of the safety loop, a peer's EMERGENCY)
   queues a further session_end or EMERGENCY message or starts another
   teardown. *)
C40_EndedSessionIsNotEndedAgain ==
    [][(session_start_time /\ ~is_active)
          => /\ Len(outgoing_queue') <= Len(outgoing_queue)
             /\ \A t \in DOMAIN pc :
                   pc'[t] \in {"end_session", "emergency_shutdown"}
                      => pc'[t] = pc[t]]_vars

LaneRank(lane) == CHOOSE i \in 1..Len(LaneOrder) : LaneOrder[i] = lane

\* the packet that goes first among ps: of the most urgent lane, and among
\* those the one enqueued first; 0 when there is none
FirstOf(ps) ==
    IF ps = {} THEN 0
    ELSE (CHOOSE p \in ps : \A q \in ps :
              \/ LaneRank(p.lane) < LaneRank(q.lane)
              \/ LaneRank(p.lane) = LaneRank(q.lane) /\ p.id <= q.id).id

(* C15: an encrypted message whose frame arrives as the send loop wrote it
   is decoded by the receive loop holding the same key into a message equal
   to the one sent in every field. *)
C15_EncryptedFrameRoundTrip ==
    (/\ rx_last.outcome \in {"delivered", "dropped"}
     /\ rx_last.sent.message.encrypted
     /\ rx_last.sent.tamper = "none")
    => (/\ rx_last.outcome = "delivered"
        /\ rx_last.message = rx_last.sent.message)

C15_EncryptedEmergencyDelivered ==
    /\ rx_last.outcome = "delivered"
    /\ rx_last.sent.message.encrypted
    /\ rx_last.sent.message.message_type = "EMERGENCY"
    /\ rx_last.message = rx_last.sent.message
    /\ Len(message_queue) >= 1
    /\ message_queue[Len(message_queue)] = rx_last.sent.message

(* C16: a message sent with encrypted=False is decoded by the receive loop
   into a message equal to the one sent: the flag byte is stripped for
   plaintext frames as for encrypted ones. *)
C16_PlaintextFrameRoundTrip ==
    (/\ rx_last.outcome \in {"delivered", "dropped"}
     /\ ~rx_last.sent.message.encrypted)
    => (/\ rx_last.outcome = "delivered"
        /\ rx_last.message = rx_last.sent.message)

(* C17: the receive loop drops an encrypted frame whose ciphertext or tag
   was altered: nothing is decoded from it, no handler is invoked, nothing
   is put on message_queue, messages_received is unchanged and the loop
   goes on; an unaltered encrypted frame read after such drops is
   delivered. *)
C17_TamperedFrameDroppedLoopGoesOn ==
    [][(/\ receiving = "read"
        /\ in_flight # <<>>
        /\ in_flight' = Tail(in_flight)
        /\ Head(in_flight).message.encrypted)
       => IF Head(in_flight).tamper # "none"
          THEN /\ rx_last'.outcome = "dropped"
               /\ rx_last'.message = NoMessage
               /\ UNCHANGED <<message_queue, handled, messages_received>>
               /\ receiving' = "while"
          ELSE rx_last.drops >= 1
               => (/\ rx_last'.outcome = "delivered"
                   /\ rx_last'.message = Head(in_flight).message
                   /\ handled' = Append(handled, Head(in_flight).message)
                   /\ message_queue' =
                         Append(message_queue, Head(in_flight).message)
                   /\ messages_received' = messages_received + 1)]_vars

C17_ValidFrameDeliveredAfterDrop ==
    /\ rx_last.outcome = "delivered"
    /\ rx_last.drops >= 1
    /\ rx_last.sent.message.encrypted
    /\ messages_received = 1
    /\ Len(handled) = 1
    /\ receiving = "while"

(* C18: the send loop writes the waiting messages in priority order: the
   message it takes from outgoing_queue and writes has a priority at least
   that of every message waiting with it. *)
C18_HighestPriorityWrittenFirst ==
    [][(/\ outgoing_queue # <<>>
        /\ outgoing_queue' = Tail(outgoing_queue)
        /\ connections # {}
        /\ ~writer_closed)
       => \A i \in 1..Len(outgoing_queue) :
             outgoing_queue[i].priority <= Head(outgoing_queue).priority]_vars

(* C19: after enqueues that overflow no lane, every dequeue returns the
   packet that goes first among those enqueued and not yet returned:
   critical before high before normal before low, in one lane the one
   enqueued first; on an empty queue it returns None. *)
C19_DequeueInPriorityThenFifoOrder ==
    [][(pq_last'.op = "dequeue" /\ ~overflowed)
          => pq_last'.packet = FirstOf(pending)]_vars

\* dequeue returned a critical packet although packets enqueued before it
\* are still waiting in other lanes
C19_CriticalOvertookEarlierPacket ==
    /\ pq_last.op = "dequeue"
    /\ pq_last.lane = "critical"
    /\ ~overflowed
    /\ \E p \in pending : p.id < pq_last.packet

(* C20: no lane ever holds more than its capacity, and an enqueue into a
   full lane discards the oldest entry of that lane, keeps the new one and
   leaves the other lanes unchanged. *)
C20_FullLaneDropsOldestKeepsNew ==
    [][/\ \A lane \in Lanes : Len(queues'[lane]) <= Capacity(lane)
       /\ \A lane \in Lanes :
             (/\ pq_last'.op = "enqueue" /\ pq_last'.lane = lane
              /\ enqueued' = enqueued + 1
              /\ Len(queues[lane]) = Capacity(lane))
             => /\ Len(queues'[lane]) = Capacity(lane)
                /\ queues'[lane] # <<>>
                /\ queues'[lane][Len(queues'[lane])] = pq_last'.packet
                /\ \A i \in 1..(Len(queues'[lane]) - 1) :
                      queues'[lane][i] = queues[lane][i + 1]
                /\ \A other \in Lanes \ {lane} : queues'[other] = queues[other]]_vars

=============================================================================
